---- MODULE Spec2Model ----
(***************************************************************************)
(* Model of the grid-world SimulationEngine (services/SimulationEngine.ts) *)
(* and of the validators it calls (types/Grid.ts, types/Agent.ts).         *)
(*                                                                         *)
(* A position is a pair <<x, y>>.  The grid is a function from the         *)
(* positions of the configured dimensions to cells.  An undefined          *)
(* occupant is NoAgent, an undefined Date is NoTime.                       *)
(***************************************************************************)
EXTENDS Integers, Sequences, FiniteSets, TLC

\* ---------------------------------------------------------------- bounds
GridWidth == 2
WorldSize == 3
MaxCalls == 5
GridHeight == 2
MaxTick == 2

\* ------------------------------------------------------------- constants
InitialHealth == 100
InitialEnergy == 100
MaxGridSize == 1000
MaxTickRate == 1000

NoAgent == "none"
NoTime == 0

\* ------------------------------------------------------ types/Common.ts
Direction ==
  {"north", "south", "east", "west",
   "northeast", "northwest", "southeast", "southwest"}

CellType == {"empty", "wall", "goal", "hazard", "resource"}

AgentType == {"predefined", "wasm", "rust-compiled"}

\* ------------------------------------------------------- types/Grid.ts
isValidPosition(position, dimensions) ==
  /\ position[1] >= 0
  /\ position[1] < dimensions.width
  /\ position[2] >= 0
  /\ position[2] < dimensions.height

\* The positions of a grid of the given dimensions.
Cells(dimensions) ==
  (0 .. dimensions.width - 1) \X (0 .. dimensions.height - 1)

\* ------------------------------------------------------ types/Agent.ts
\* A missing (or empty) field of an action is the empty string.
validateAgentAction(action) ==
  (IF action.type = "" THEN <<"Action type is required">> ELSE <<>>)
  \o (IF action.type = "move" /\ action.direction = ""
        THEN <<"Direction is required for move actions">> ELSE <<>>)
  \o (IF action.type = "communicate" /\ action.message = ""
        THEN <<"Message is required for communicate actions">> ELSE <<>>)

\* An agent object is [id, name, type, hasStep].
validateAgent(agent) ==
  (IF agent.id = "" THEN <<"Agent ID is required">> ELSE <<>>)
  \o (IF agent.name = "" THEN <<"Agent name is required">> ELSE <<>>)
  \o (IF agent.type \notin AgentType
        THEN <<"Valid agent type is required">> ELSE <<>>)
  \o (IF ~agent.hasStep
        THEN <<"Agent must implement step function">> ELSE <<>>)

\* ------------------------------------------- SimulationEngine: helpers
\* validateConfig returning at the first violated rule.
validateConfigFirstErrorOnly(config) ==
  IF config.width <= 0 \/ config.height <= 0
    THEN <<"Valid grid size is required">>
  ELSE IF config.width > MaxGridSize \/ config.height > MaxGridSize
    THEN <<"Grid size cannot exceed 1000x1000">>
  ELSE IF config.tickRate <= 0
    THEN <<"Tick rate must be positive">>
  ELSE IF config.tickRate > MaxTickRate
    THEN <<"Tick rate cannot exceed 1000 ticks per second">>
  ELSE IF config.maxAgents <= 0
    THEN <<"Max agents must be positive">>
  ELSE IF config.maxAgents > config.width * config.height
    THEN <<"Max agents cannot exceed grid capacity">>
  ELSE IF ~config.hasWorldRules
    THEN <<"World rules are required">>
  ELSE <<>>

validateConfig(config) ==
  (IF config.width <= 0 \/ config.height <= 0
     THEN <<"Valid grid size is required">> ELSE <<>>)
  \o (IF config.width > MaxGridSize \/ config.height > MaxGridSize
        THEN <<"Grid size cannot exceed 1000x1000">> ELSE <<>>)
  \o (IF config.tickRate <= 0
        THEN <<"Tick rate must be positive">> ELSE <<>>)
  \o (IF config.tickRate > MaxTickRate
        THEN <<"Tick rate cannot exceed 1000 ticks per second">> ELSE <<>>)
  \o (IF config.maxAgents <= 0
        THEN <<"Max agents must be positive">> ELSE <<>>)
  \o (IF config.maxAgents > config.width * config.height
        THEN <<"Max agents cannot exceed grid capacity">> ELSE <<>>)
  \o (IF ~config.hasWorldRules
        THEN <<"World rules are required">> ELSE <<>>)

calculateNewPosition(position, direction) ==
  CASE direction = "north"     -> <<position[1], position[2] - 1>>
    [] direction = "south"     -> <<position[1], position[2] + 1>>
    [] direction = "east"      -> <<position[1] + 1, position[2]>>
    [] direction = "west"      -> <<position[1] - 1, position[2]>>
    [] direction = "northeast" -> <<position[1] + 1, position[2] - 1>>
    [] direction = "northwest" -> <<position[1] - 1, position[2] - 1>>
    [] direction = "southeast" -> <<position[1] + 1, position[2] + 1>>
    [] direction = "southwest" -> <<position[1] - 1, position[2] + 1>>
    [] OTHER                   -> position

isDiagonalMove(direction) ==
  direction \in {"northeast", "northwest", "southeast", "southwest"}

Max(a, b) == IF a >= b THEN a ELSE b

createWorldGrid(dimensions) ==
  [p \in Cells(dimensions) |-> [type |-> "empty", occupant |-> NoAgent]]

\* The state the constructor builds: an empty 0 x 0 world, default rules.
InitialConfig ==
  [width |-> 0, height |-> 0, tickRate |-> 10, maxAgents |-> 0,
   hasWorldRules |-> TRUE, allowDiagonalMovement |-> TRUE,
   maxAgentsPerCell |-> 1, energyConsumptionPerMove |-> 1,
   collisionBehavior |-> "block", communicationRange |-> 3]

\* executeMove without `grid[oldPosition].occupant = undefined`.
executeMoveKeepsOldOccupant(world, config, id, direction) ==
  LET agentState  == world.agents[id]
      newPosition == calculateNewPosition(agentState.position, direction)
  IN  IF ~isValidPosition(newPosition, config) THEN world
      ELSE IF world.grid[newPosition].type = "wall" THEN world
      ELSE IF world.grid[newPosition].occupant # NoAgent
              /\ config.collisionBehavior = "block" THEN world
      ELSE IF ~config.allowDiagonalMovement /\ isDiagonalMove(direction)
        THEN world
      ELSE
        [grid   |-> [world.grid EXCEPT ![newPosition].occupant = id],
         agents |-> [world.agents EXCEPT
                       ![id].position = newPosition,
                       ![id].energy =
                         Max(0, @ - config.energyConsumptionPerMove)]]

\* executeMove with the energy not floored at 0.
executeMoveNoFloor(world, config, id, direction) ==
  LET agentState  == world.agents[id]
      newPosition == calculateNewPosition(agentState.position, direction)
  IN  IF ~isValidPosition(newPosition, config) THEN world
      ELSE IF world.grid[newPosition].type = "wall" THEN world
      ELSE IF world.grid[newPosition].occupant # NoAgent
              /\ config.collisionBehavior = "block" THEN world
      ELSE IF ~config.allowDiagonalMovement /\ isDiagonalMove(direction)
        THEN world
      ELSE
        LET oldPosition == agentState.position
            cleared == [world.grid EXCEPT ![oldPosition].occupant = NoAgent]
        IN  [grid   |-> [cleared EXCEPT ![newPosition].occupant = id],
             agents |-> [world.agents EXCEPT
                           ![id].position = newPosition,
                           ![id].energy = @ - config.energyConsumptionPerMove]]

\* executeMove without the collision check.
executeMoveIgnoresOccupant(world, config, id, direction) ==
  LET agentState  == world.agents[id]
      newPosition == calculateNewPosition(agentState.position, direction)
  IN  IF ~isValidPosition(newPosition, config) THEN world
      ELSE IF world.grid[newPosition].type = "wall" THEN world
      ELSE IF ~config.allowDiagonalMovement /\ isDiagonalMove(direction)
        THEN world
      ELSE
        LET oldPosition == agentState.position
            cleared == [world.grid EXCEPT ![oldPosition].occupant = NoAgent]
        IN  [grid   |-> [cleared EXCEPT ![newPosition].occupant = id],
             agents |-> [world.agents EXCEPT
                           ![id].position = newPosition,
                           ![id].energy =
                             Max(0, @ - config.energyConsumptionPerMove)]]

\* executeMove without the diagonal movement check.
executeMoveAllowsDiagonal(world, config, id, direction) ==
  LET agentState  == world.agents[id]
      newPosition == calculateNewPosition(agentState.position, direction)
  IN  IF ~isValidPosition(newPosition, config) THEN world
      ELSE IF world.grid[newPosition].type = "wall" THEN world
      ELSE IF world.grid[newPosition].occupant # NoAgent
              /\ config.collisionBehavior = "block" THEN world
      ELSE
        LET oldPosition == agentState.position
            cleared == [world.grid EXCEPT ![oldPosition].occupant = NoAgent]
        IN  [grid   |-> [cleared EXCEPT ![newPosition].occupant = id],
             agents |-> [world.agents EXCEPT
                           ![id].position = newPosition,
                           ![id].energy =
                             Max(0, @ - config.energyConsumptionPerMove)]]

\* A world is the part of WorldState a tick changes: [grid, agents].
\* executeMove: the world after the agent `id` attempts to move.
executeMove(world, config, id, direction) ==
  LET agentState  == world.agents[id]
      newPosition == calculateNewPosition(agentState.position, direction)
  IN  IF ~isValidPosition(newPosition, config) THEN world
      ELSE IF world.grid[newPosition].type = "wall" THEN world
      ELSE IF world.grid[newPosition].occupant # NoAgent
              /\ config.collisionBehavior = "block" THEN world
      ELSE IF ~config.allowDiagonalMovement /\ isDiagonalMove(direction)
        THEN world
      ELSE
        LET oldPosition == agentState.position
            cleared == [world.grid EXCEPT ![oldPosition].occupant = NoAgent]
        IN  [grid   |-> [cleared EXCEPT ![newPosition].occupant = id],
             agents |-> [world.agents EXCEPT
                           ![id].position = newPosition,
                           ![id].energy =
                             Max(0, @ - config.energyConsumptionPerMove)]]

\* executeAgentAction in which a communicate costs the energy of a move.
executeAgentActionCommunicateCostsEnergy(world, config, id, action) ==
  IF Len(validateAgentAction(action)) > 0 THEN world
  ELSE IF action.type = "move"
    THEN executeMove(world, config, id, action.direction)
  ELSE IF action.type = "communicate"
    THEN [world EXCEPT !.agents[id].energy =
            Max(0, world.agents[id].energy - config.energyConsumptionPerMove)]
  ELSE world

\* executeAgentAction: validate, then dispatch on the action type.
\* communicate and custom only log; an unknown type matches no case.
executeAgentAction(world, config, id, action) ==
  IF Len(validateAgentAction(action)) > 0 THEN world
  ELSE IF action.type = "move"
    THEN executeMove(world, config, id, action.direction)
  ELSE world

\* One iteration of the loop of executeSimulationTick.  `result` is what
\* the agent's step did: it threw, or it returned an action.
processAgent(world, config, id, result) ==
  IF id \notin DOMAIN world.agents THEN world
  ELSE IF result.threw THEN world
  ELSE executeAgentAction(world, config, id, result.action)

\* The loop with the try/catch around it instead of inside it: a step that
\* throws ends the loop.
RECURSIVE processAgentsAbortOnThrow(_, _, _, _, _)
processAgentsAbortOnThrow(world, config, agentList, results, i) ==
  IF i > Len(agentList) THEN world
  ELSE IF agentList[i] \in DOMAIN world.agents /\ results[i].threw THEN world
  ELSE processAgentsAbortOnThrow(
         processAgent(world, config, agentList[i], results[i]),
         config, agentList, results, i + 1)

\* The loop of executeSimulationTick over the agent list from index i on.
RECURSIVE processAgents(_, _, _, _, _)
processAgents(world, config, agentList, results, i) ==
  IF i > Len(agentList) THEN world
  ELSE processAgents(
         processAgent(world, config, agentList[i], results[i]),
         config, agentList, results, i + 1)

\* The world object passed to the step call of the agent at index i: the
\* loop passes this.state.worldState, which the iterations before have
\* changed in place.
stepArgument(world, config, agentList, results, i) ==
  processAgents(world, config, SubSeq(agentList, 1, i - 1), results, 1)

\* What executeSimulationTick writes to the console for one listed agent:
\* console.error when its step throws, console.warn when its action fails
\* validation, nothing when the agent is skipped or its action passes.
agentLog(mapping, id, result) ==
  IF id \notin DOMAIN mapping THEN {}
  ELSE IF result.threw THEN {"Error executing agent"}
  ELSE IF Len(validateAgentAction(result.action)) > 0
    THEN {"Invalid action from agent"}
  ELSE {}

\* The kinds of message a tick writes to the console.
tickLog(mapping, agentList, results) ==
  UNION {agentLog(mapping, agentList[i], results[i]) :
           i \in 1 .. Len(agentList)}

\* ------------------------------------------- agents/PredefinedAgent
\* The worldState object an agent's step is passed: the grid and the
\* dimensions.  A grid without rows is the empty function.
NoPosition == <<0 - 1, 0 - 1>>

Abs(n) == IF n < 0 THEN 0 - n ELSE n

\* canMoveTo of the random walker without the test of the occupant.
canMoveToCellIgnoresOccupant(worldState, x, y) ==
  /\ <<x, y>> \in DOMAIN worldState.grid
  /\ worldState.grid[<<x, y>>].type # "wall"

\* RandomWalkerAgent.canMoveTo(worldState, x, y): every missing row or
\* cell answers false
canMoveToCell(worldState, x, y) ==
  /\ <<x, y>> \in DOMAIN worldState.grid
  /\ worldState.grid[<<x, y>>].type # "wall"
  /\ worldState.grid[<<x, y>>].occupant = NoAgent

\* RandomWalkerAgent.getAvailableDirections: north, south, west, east
getAvailableDirections(worldState, position) ==
  LET x == position[1]
      y == position[2]
  IN  (IF y > 0 /\ canMoveToCell(worldState, x, y - 1)
         THEN <<"north">> ELSE <<>>)
      \o (IF y < worldState.dimensions.height - 1
              /\ canMoveToCell(worldState, x, y + 1)
            THEN <<"south">> ELSE <<>>)
      \o (IF x > 0 /\ canMoveToCell(worldState, x - 1, y)
            THEN <<"west">> ELSE <<>>)
      \o (IF x < worldState.dimensions.width - 1
              /\ canMoveToCell(worldState, x + 1, y)
            THEN <<"east">> ELSE <<>>)

\* RandomWalkerAgent.step: the actions it can return; Math.random() is in
\* [0, 1), so the index drawn is any index of the list
RandomWalkerStep(worldState, position) ==
  LET availableDirections == getAvailableDirections(worldState, position)
  IN  IF Len(availableDirections) = 0
        THEN { [type |-> "wait", direction |-> "", message |-> ""] }
        ELSE { [type |-> "move", direction |-> availableDirections[i],
                message |-> ""] : i \in 1 .. Len(availableDirections) }

\* GoalSeekerAgent.findNearestGoal: the scan from cell k on, rows outside,
\* columns inside, a nearer goal replacing the one held
RECURSIVE findNearestGoalFrom(_, _, _, _, _)
findNearestGoalFrom(worldState, position, k, nearestGoal, minDistance) ==
  LET width  == worldState.dimensions.width
      height == worldState.dimensions.height
  IN  IF k >= width * height THEN nearestGoal
      ELSE LET x == k % width
               y == k \div width
               distance == Abs(x - position[1]) + Abs(y - position[2])
           IN  IF /\ <<x, y>> \in DOMAIN worldState.grid
                  /\ worldState.grid[<<x, y>>].type = "goal"
                  /\ (nearestGoal = NoPosition \/ distance < minDistance)
                 THEN findNearestGoalFrom(worldState, position, k + 1,
                                          <<x, y>>, distance)
                 ELSE findNearestGoalFrom(worldState, position, k + 1,
                                          nearestGoal, minDistance)

\* GoalSeekerAgent.findNearestGoal; NoPosition is null
findNearestGoal(worldState, position) ==
  findNearestGoalFrom(worldState, position, 0, NoPosition, 0)

\* getDirectionToward with >= in the first comparison.
getDirectionTowardTieHorizontal(from, to) ==
  LET dx == to[1] - from[1]
      dy == to[2] - from[2]
  IN  IF Abs(dx) >= Abs(dy) /\ dx # 0
        THEN (IF dx > 0 THEN "east" ELSE "west")
      ELSE IF dy # 0 THEN (IF dy > 0 THEN "south" ELSE "north")
      ELSE ""

\* GoalSeekerAgent.getDirectionToward; the empty string is null
getDirectionToward(from, to) ==
  LET dx == to[1] - from[1]
      dy == to[2] - from[2]
  IN  IF Abs(dx) > Abs(dy) THEN (IF dx > 0 THEN "east" ELSE "west")
      ELSE IF dy # 0 THEN (IF dy > 0 THEN "south" ELSE "north")
      ELSE ""

\* getPositionInDirection of GoalSeekerAgent and of PatrolAgent: the four
\* cardinal cases, and the position itself by default
getPositionInDirection(position, direction) ==
  CASE direction = "north" -> <<position[1], position[2] - 1>>
    [] direction = "south" -> <<position[1], position[2] + 1>>
    [] direction = "east"  -> <<position[1] + 1, position[2]>>
    [] direction = "west"  -> <<position[1] - 1, position[2]>>
    [] OTHER               -> position

\* canMoveTo(worldState, position, direction) of GoalSeekerAgent and of
\* PatrolAgent
canMoveTo(worldState, position, direction) ==
  LET newPos == getPositionInDirection(position, direction)
  IN  /\ ~(newPos[1] < 0 \/ newPos[1] >= worldState.dimensions.width
           \/ newPos[2] < 0 \/ newPos[2] >= worldState.dimensions.height)
      /\ worldState.grid[newPos].type # "wall"
      /\ worldState.grid[newPos].occupant = NoAgent

\* the distance getAlternativeDirections sorts by
distanceAfter(position, direction, goalPosition) ==
  LET pos == getPositionInDirection(position, direction)
  IN  Abs(pos[1] - goalPosition[1]) + Abs(pos[2] - goalPosition[2])

\* Array.filter
RECURSIVE filterCanMoveTo(_, _, _)
filterCanMoveTo(directions, worldState, position) ==
  IF directions = <<>> THEN <<>>
  ELSE (IF canMoveTo(worldState, position, Head(directions))
          THEN <<Head(directions)>> ELSE <<>>)
       \o filterCanMoveTo(Tail(directions), worldState, position)

\* Array.sort with the comparator distA - distB: a stable sort, so
\* directions at equal distance keep their order
RECURSIVE sortByDistance(_, _, _)
sortByDistance(directions, position, goalPosition) ==
  IF directions = <<>> THEN <<>>
  ELSE LET n      == Len(directions)
           sorted == sortByDistance(SubSeq(directions, 1, n - 1),
                                    position, goalPosition)
           d      == directions[n]
           k      == Cardinality(
                       { i \in 1 .. Len(sorted) :
                           distanceAfter(position, sorted[i], goalPosition)
                             <= distanceAfter(position, d, goalPosition) })
       IN  SubSeq(sorted, 1, k) \o <<d>> \o SubSeq(sorted, k + 1, Len(sorted))

\* GoalSeekerAgent.getAlternativeDirections
getAlternativeDirections(worldState, position, goalPosition) ==
  sortByDistance(
    filterCanMoveTo(<<"north", "south", "east", "west">>, worldState,
                    position),
    position, goalPosition)

\* GoalSeekerAgent.step that takes the last of the alternatives.
GoalSeekerStepWorstAlternative(worldState, position) ==
  LET goalPosition == findNearestGoal(worldState, position)
      direction == getDirectionToward(position, goalPosition)
      alternativeDirections ==
        getAlternativeDirections(worldState, position, goalPosition)
  IN  IF goalPosition = NoPosition
        THEN RandomWalkerStep(worldState, position)
      ELSE IF direction # "" /\ canMoveTo(worldState, position, direction)
        THEN { [type |-> "move", direction |-> direction, message |-> ""] }
      ELSE IF Len(alternativeDirections) > 0
        THEN { [type |-> "move",
                direction |->
                  alternativeDirections[Len(alternativeDirections)],
                message |-> ""] }
      ELSE { [type |-> "wait", direction |-> "", message |-> ""] }

\* GoalSeekerAgent.step that waits when it has no direction to the goal.
GoalSeekerStepWaitsOnGoal(worldState, position) ==
  LET goalPosition == findNearestGoal(worldState, position)
      direction == getDirectionToward(position, goalPosition)
      alternativeDirections ==
        getAlternativeDirections(worldState, position, goalPosition)
  IN  IF goalPosition = NoPosition
        THEN RandomWalkerStep(worldState, position)
      ELSE IF direction = ""
        THEN { [type |-> "wait", direction |-> "", message |-> ""] }
      ELSE IF canMoveTo(worldState, position, direction)
        THEN { [type |-> "move", direction |-> direction, message |-> ""] }
      ELSE IF Len(alternativeDirections) > 0
        THEN { [type |-> "move", direction |-> alternativeDirections[1],
                message |-> ""] }
      ELSE { [type |-> "wait", direction |-> "", message |-> ""] }

\* GoalSeekerAgent.step: the actions it can return
GoalSeekerStep(worldState, position) ==
  LET goalPosition == findNearestGoal(worldState, position)
      direction == getDirectionToward(position, goalPosition)
      alternativeDirections ==
        getAlternativeDirections(worldState, position, goalPosition)
  IN  IF goalPosition = NoPosition
        THEN RandomWalkerStep(worldState, position)
      ELSE IF direction # "" /\ canMoveTo(worldState, position, direction)
        THEN { [type |-> "move", direction |-> direction, message |-> ""] }
      ELSE IF Len(alternativeDirections) > 0
        THEN { [type |-> "move", direction |-> alternativeDirections[1],
                message |-> ""] }
      ELSE { [type |-> "wait", direction |-> "", message |-> ""] }

DefaultPattern == <<"north", "east", "south", "west">>

\* PatrolAgent.step that advances the index once more after it has
\* returned the next direction.
PatrolAgentStepAdvancesTwice(pattern, index, worldState, position) ==
  LET direction == pattern[index + 1]
      nextIndex == (index + 1) % Len(pattern)
      nextDirection == pattern[nextIndex + 1]
  IN  IF canMoveTo(worldState, position, direction)
        THEN [action |-> [type |-> "move", direction |-> direction,
                          message |-> ""],
              index |-> nextIndex]
      ELSE IF canMoveTo(worldState, position, nextDirection)
        THEN [action |-> [type |-> "move", direction |-> nextDirection,
                          message |-> ""],
              index |-> (nextIndex + 1) % Len(pattern)]
      ELSE [action |-> [type |-> "wait", direction |-> "", message |-> ""],
            index |-> nextIndex]

\* PatrolAgent.step: the action it returns and the index it leaves
PatrolAgentStep(pattern, index, worldState, position) ==
  LET direction == pattern[index + 1]
      nextIndex == (index + 1) % Len(pattern)
      nextDirection == pattern[nextIndex + 1]
  IN  IF canMoveTo(worldState, position, direction)
        THEN [action |-> [type |-> "move", direction |-> direction,
                          message |-> ""],
              index |-> nextIndex]
      ELSE IF canMoveTo(worldState, position, nextDirection)
        THEN [action |-> [type |-> "move", direction |-> nextDirection,
                          message |-> ""],
              index |-> nextIndex]
      ELSE [action |-> [type |-> "wait", direction |-> "", message |-> ""],
            index |-> nextIndex]

\* ------------------------------------------------------------ inputs
\* The configurations initialize is called with.  The valid ones use the
\* default rules (collisionBehavior 'block', one agent per cell) and differ
\* in diagonal movement, energy cost and agent limit.
BaseConfig ==
  [width |-> GridWidth, height |-> GridHeight, tickRate |-> 10,
   maxAgents |-> 2, hasWorldRules |-> TRUE, allowDiagonalMovement |-> TRUE,
   maxAgentsPerCell |-> 1, energyConsumptionPerMove |-> 100,
   collisionBehavior |-> "block", communicationRange |-> 3]

ValidConfigs ==
  { BaseConfig,
    [BaseConfig EXCEPT !.allowDiagonalMovement = FALSE,
                       !.energyConsumptionPerMove = 1,
                       !.maxAgents = 1] }

\* One configuration that validateConfig rejects (ConfigInputs, below, holds
\* the others).
InvalidConfigs ==
  { [BaseConfig EXCEPT !.width = 0, !.tickRate = 0] }

Configs == ValidConfigs \cup InvalidConfigs

\* The agent objects handed to addAgent; the last one fails validateAgent.
AgentIds == {"a", "b"}

AgentObjects ==
  { [id |-> i, name |-> "Agent", type |-> "predefined", hasStep |-> TRUE]
      : i \in AgentIds }
  \cup { [id |-> "a", name |-> "", type |-> "predefined", hasStep |-> TRUE] }

\* Positions addAgent is called with: every cell, and two outside the grid.
PlacePositions ==
  Cells([width |-> GridWidth, height |-> GridHeight])
  \cup { <<0 - 1, 0>>, <<GridWidth, GridHeight>> }

\* The cells a holder of getState() turns into walls.
WallPositions == { <<GridWidth - 1, 0>> }


\* What an agent's step can do: throw, or return one of these actions.
Action(t, d, m) == [type |-> t, direction |-> d, message |-> m]

AgentActions ==
  { Action("move", d, "") : d \in Direction }
  \cup { Action("wait", "", ""),
         Action("communicate", "", "hello"),
         Action("move", "", "") }

StepResults ==
  { [threw |-> FALSE, action |-> a] : a \in AgentActions }
  \cup { [threw |-> TRUE, action |-> Action("wait", "", "")] }

\* ------------------------------------------------------------- state
VARIABLES
  isInitialized,  \* SimulationEngine.isInitialized
  isRunning,      \* state.isRunning
  isPaused,       \* state.isPaused
  currentTick,    \* state.currentTick
  worldTick,      \* state.worldState.tick
  grid,           \* state.worldState.grid
  worldAgents,    \* state.worldState.agents : id -> AgentState
  agents,         \* state.agents, as the list of the agents' ids
  config,         \* state.config (worldState.dimensions is config.gridSize)
  startTime,      \* state.startTime
  endTime,        \* state.endTime
  intervalId,     \* SimulationEngine.intervalId is not null
  activeTimers,   \* number of intervals set and not yet cleared
  last            \* the last call: what was called, in which run state,
                  \* how it returned, what it wrote to the console (or
                  \* threw) and how often it called a cleanup hook

\* A WASMAgent (agents/WASMAgent.ts) and the module object it was built on
VARIABLES
  wasmInstance,     \* wasmModule.instance is defined
  wasmExports,      \* wasmModule.exports: "none" (undefined), "nostep"
                    \* (an object whose step is not a function) or "step"
  executionSandbox, \* WASMAgent.executionSandbox is defined
  wasmLast          \* the last call on the agent and its outcome

wasmVars == <<wasmInstance, wasmExports, executionSandbox, wasmLast>>

\* A PatrolAgent (agents/PredefinedAgent), and the last step call made on a
\* predefined agent
VARIABLES
  patrolPattern,        \* PatrolAgent.patrolPattern
  currentPatrolIndex,   \* PatrolAgent.currentPatrolIndex
  patrolCalls,          \* number of step calls made on the patrol agent
  agentLast             \* the last step call on a predefined agent: which
                        \* class, for which agent state, on which world,
                        \* and the action it returned

agentVars == <<patrolPattern, currentPatrolIndex, patrolCalls, agentLast>>

\* A WASMExecutionSandbox with its WASMMemoryManager
\* (services/WASMAgentRuntime.ts) and the memory it was built on
VARIABLES
  memoryPages,   \* memory.buffer.byteLength / 65536
  memoryTail,    \* the last bytes of memory.buffer; every byte before is 0
  nextOffset,    \* WASMMemoryManager.nextOffset
  pendingSteps,  \* the result offsets of the executeStep invocations
                 \* suspended at their await, oldest first
  memoryLast     \* the last call on the sandbox or its memory manager
                 \* and its outcome

memoryVars ==
  <<memoryPages, memoryTail, nextOffset, pendingSteps, memoryLast>>

vars ==
  <<isInitialized, isRunning, isPaused, currentTick, worldTick, grid,
    worldAgents, agents, config, startTime, endTime, intervalId,
    activeTimers, last, wasmVars, agentVars, memoryVars>>

\* the engine's own state: everything but the record of the last call
engineVars ==
  <<isInitialized, isRunning, isPaused, currentTick, worldTick, grid,
    worldAgents, agents, config, startTime, endTime, intervalId,
    activeTimers>>

worldVars == <<grid, worldAgents, agents>>
tickVars == <<currentTick, worldTick>>
runVars == <<isRunning, isPaused, startTime, endTime, intervalId, activeTimers>>

\* SimulationStatus of the run flags
Status ==
  IF isRunning THEN "running" ELSE IF isPaused THEN "paused" ELSE "stopped"

Called(op, ret, log) ==
  last' = [op |-> op, from |-> Status, ret |-> ret, log |-> log,
           cleanups |-> 0]

\* The call replaced the agent list and the world's agent map by empty ones:
\* `this.agents = []` and the world of createInitialState(). No method of a
\* discarded agent is called; `discarded` remembers the ids that were listed.
Discarded(op) ==
  last' = [op |-> op, from |-> Status, ret |-> "ok", log |-> {},
           cleanups |-> 0,
           discarded |-> {agents[k] : k \in 1 .. Len(agents)}]

\* No sandbox has been built: the memory is as instantiateModule creates
\* it (initial: 1) and no memory manager has allocated in it.
NoSandbox ==
  /\ memoryPages = 1
  /\ memoryTail = << >>
  /\ nextOffset = 0
  /\ pendingSteps = << >>
  /\ memoryLast = [op |-> "none"]

\* constructor: createInitialState()
Init ==
  /\ isInitialized = FALSE
  /\ isRunning = FALSE
  /\ isPaused = FALSE
  /\ currentTick = 0
  /\ worldTick = 0
  /\ grid = createWorldGrid(InitialConfig)
  /\ worldAgents = << >>
  /\ agents = << >>
  /\ config = InitialConfig
  /\ startTime = NoTime
  /\ endTime = NoTime
  /\ intervalId = FALSE
  /\ activeTimers = 0
  /\ last = [op |-> "new", from |-> "stopped", ret |-> "ok", log |-> {},
             cleanups |-> 0]
  \* new WASMAgent(id, name, wasmModule) on a module that is loaded and not
  \* instantiated
  /\ wasmInstance = FALSE
  /\ wasmExports = "none"
  /\ executionSandbox = FALSE
  /\ wasmLast = [op |-> "new", ret |-> "return"]
  /\ NoSandbox
  \* new PatrolAgent(id)
  /\ patrolPattern = DefaultPattern
  /\ currentPatrolIndex = 0
  /\ patrolCalls = 0
  /\ agentLast = [class |-> "none"]

\* new Date(): a time later than every time the state records
Now == Max(startTime, endTime) + 1

\* stopSimulationLoop() that forgets the interval without clearing it.
stopSimulationLoopKeepsInterval == activeTimers

\* stopSimulationLoop(): the number of live intervals afterwards
stopSimulationLoop == IF intervalId THEN activeTimers - 1 ELSE activeTimers

\* startSimulationLoop(): clears a registered interval, then sets one
startSimulationLoop == stopSimulationLoop + 1

\* initialize(config) with stop() called before the validation.
InitializeStopsFirst(c) ==
  IF Len(validateConfig(c)) > 0
    THEN /\ Called("initialize", "throw",
                   {validateConfig(c)[k] : k \in 1 .. Len(validateConfig(c))})
         /\ isRunning' = FALSE
         /\ isPaused' = FALSE
         /\ activeTimers' = stopSimulationLoop
         /\ intervalId' = FALSE
         /\ endTime' = IF startTime # NoTime /\ endTime = NoTime
                         THEN Now ELSE endTime
         /\ UNCHANGED <<isInitialized, config, startTime>>
         /\ UNCHANGED <<worldVars, tickVars>>
    ELSE /\ isRunning' = FALSE
         /\ isPaused' = FALSE
         /\ activeTimers' = stopSimulationLoop
         /\ intervalId' = FALSE
         /\ config' = c
         /\ currentTick' = 0
         /\ worldTick' = 0
         /\ grid' = createWorldGrid(c)
         /\ worldAgents' = << >>
         /\ agents' = << >>
         /\ startTime' = NoTime
         /\ endTime' = NoTime
         /\ isInitialized' = TRUE
         /\ Discarded("initialize")

\* initialize(config)
Initialize(c) ==
  IF Len(validateConfig(c)) > 0
    THEN \* the Error thrown carries every message of validateConfig
         /\ Called("initialize", "throw",
                   {validateConfig(c)[k] : k \in 1 .. Len(validateConfig(c))})
         /\ UNCHANGED engineVars
    ELSE \* stop(), then the state is replaced
         /\ isRunning' = FALSE
         /\ isPaused' = FALSE
         /\ activeTimers' = stopSimulationLoop
         /\ intervalId' = FALSE
         /\ config' = c
         /\ currentTick' = 0
         /\ worldTick' = 0
         /\ grid' = createWorldGrid(c)
         /\ worldAgents' = << >>
         /\ agents' = << >>
         /\ startTime' = NoTime
         /\ endTime' = NoTime
         /\ isInitialized' = TRUE
         /\ Discarded("initialize")

\* play() with startTime assigned on every transition into Running.
PlayRestampsStartTime ==
  IF ~isInitialized
    THEN /\ Called("play", "throw", {})
         /\ UNCHANGED engineVars
  ELSE IF isRunning
    THEN /\ Called("play", "ok", {})
         /\ UNCHANGED engineVars
  ELSE /\ isRunning' = TRUE
       /\ isPaused' = FALSE
       /\ startTime' = Now
       /\ activeTimers' = startSimulationLoop
       /\ intervalId' = TRUE
       /\ Called("play", "ok", {})
       /\ UNCHANGED <<isInitialized, config, endTime>>
       /\ UNCHANGED <<worldVars, tickVars>>

\* play() that restarts the tick counters.
PlayResetsTick ==
  IF ~isInitialized
    THEN /\ Called("play", "throw", {})
         /\ UNCHANGED engineVars
  ELSE IF isRunning
    THEN /\ Called("play", "ok", {})
         /\ UNCHANGED engineVars
  ELSE /\ isRunning' = TRUE
       /\ isPaused' = FALSE
       /\ startTime' = IF startTime = NoTime THEN Now ELSE startTime
       /\ activeTimers' = startSimulationLoop
       /\ intervalId' = TRUE
       /\ currentTick' = 0
       /\ worldTick' = 0
       /\ Called("play", "ok", {})
       /\ UNCHANGED <<isInitialized, config, endTime>>
       /\ UNCHANGED worldVars

\* play()
Play ==
  IF ~isInitialized
    THEN /\ Called("play", "throw", {})
         /\ UNCHANGED engineVars
  ELSE IF isRunning
    THEN /\ Called("play", "ok", {})
         /\ UNCHANGED engineVars
  ELSE /\ isRunning' = TRUE
       /\ isPaused' = FALSE
       /\ startTime' = IF startTime = NoTime THEN Now ELSE startTime
       /\ activeTimers' = startSimulationLoop
       /\ intervalId' = TRUE
       /\ Called("play", "ok", {})
       /\ UNCHANGED <<isInitialized, config, endTime>>
       /\ UNCHANGED <<worldVars, tickVars>>

\* pause() without the isRunning guard.
PauseUnguarded ==
  /\ isRunning' = FALSE
  /\ isPaused' = TRUE
  /\ activeTimers' = stopSimulationLoop
  /\ intervalId' = FALSE
  /\ Called("pause", "ok", {})
  /\ UNCHANGED <<isInitialized, config, startTime, endTime>>
  /\ UNCHANGED <<worldVars, tickVars>>

\* pause()
Pause ==
  IF ~isRunning
    THEN /\ Called("pause", "ok", {})
         /\ UNCHANGED engineVars
    ELSE /\ isRunning' = FALSE
         /\ isPaused' = TRUE
         /\ activeTimers' = stopSimulationLoop
         /\ intervalId' = FALSE
         /\ Called("pause", "ok", {})
         /\ UNCHANGED <<isInitialized, config, startTime, endTime>>
         /\ UNCHANGED <<worldVars, tickVars>>

\* reset() without the call of stop(): the interval stays installed.
ResetWithoutStop ==
  /\ isRunning' = FALSE
  /\ isPaused' = FALSE
  /\ UNCHANGED <<activeTimers, intervalId>>
  /\ IF isInitialized
       THEN /\ currentTick' = 0
            /\ worldTick' = 0
            /\ grid' = createWorldGrid(config)
            /\ worldAgents' = << >>
            /\ agents' = << >>
            /\ startTime' = NoTime
            /\ endTime' = NoTime
       ELSE /\ UNCHANGED <<startTime, endTime>>
            /\ UNCHANGED <<worldVars, tickVars>>
  /\ Discarded("reset")
  /\ UNCHANGED <<isInitialized, config>>

\* reset() that calls the cleanup hook of every listed agent before the
\* list is replaced.
ResetCallsCleanup ==
  /\ isRunning' = FALSE
  /\ isPaused' = FALSE
  /\ activeTimers' = stopSimulationLoop
  /\ intervalId' = FALSE
  /\ IF isInitialized
       THEN /\ currentTick' = 0
            /\ worldTick' = 0
            /\ grid' = createWorldGrid(config)
            /\ worldAgents' = << >>
            /\ agents' = << >>
            /\ startTime' = NoTime
            /\ endTime' = NoTime
       ELSE /\ endTime' = IF startTime # NoTime /\ endTime = NoTime
                            THEN Now ELSE endTime
            /\ UNCHANGED startTime
            /\ UNCHANGED <<worldVars, tickVars>>
  /\ last' = [op |-> "reset", from |-> Status, ret |-> "ok", log |-> {},
              cleanups |->
                Cardinality({k \in 1 .. Len(agents) : agents[k] = "a"}),
              discarded |-> {agents[k] : k \in 1 .. Len(agents)}]
  /\ UNCHANGED <<isInitialized, config>>

\* reset(): stop(), then the state is replaced if the engine is initialized
Reset ==
  /\ isRunning' = FALSE
  /\ isPaused' = FALSE
  /\ activeTimers' = stopSimulationLoop
  /\ intervalId' = FALSE
  /\ IF isInitialized
       THEN /\ currentTick' = 0
            /\ worldTick' = 0
            /\ grid' = createWorldGrid(config)
            /\ worldAgents' = << >>
            /\ agents' = << >>
            /\ startTime' = NoTime
            /\ endTime' = NoTime
       ELSE /\ endTime' = IF startTime # NoTime /\ endTime = NoTime
                            THEN Now ELSE endTime
            /\ UNCHANGED startTime
            /\ UNCHANGED <<worldVars, tickVars>>
  /\ Discarded("reset")
  /\ UNCHANGED <<isInitialized, config>>

\* executeSimulationTick with `worldState.tick = currentTick` taken before
\* the increment.
executeSimulationTickStaleWorldTick(results) ==
  LET world == processAgents([grid |-> grid, agents |-> worldAgents],
                             config, agents, results, 1)
  IN  /\ grid' = world.grid
      /\ worldAgents' = world.agents
      /\ currentTick' = currentTick + 1
      /\ worldTick' = currentTick
      /\ UNCHANGED agents

\* executeSimulationTick(), given what each listed agent's step does
executeSimulationTick(results) ==
  LET world == processAgents([grid |-> grid, agents |-> worldAgents],
                             config, agents, results, 1)
  IN  /\ grid' = world.grid
      /\ worldAgents' = world.agents
      /\ currentTick' = currentTick + 1
      /\ worldTick' = currentTick + 1
      /\ UNCHANGED agents

\* step() that leaves the engine paused.
StepPausesEngine(results) ==
  IF ~isInitialized
    THEN /\ Called("step", "throw", {})
         /\ UNCHANGED engineVars
    ELSE /\ currentTick < MaxTick
         /\ executeSimulationTick(results)
         /\ Called("step", "ok", tickLog(worldAgents, agents, results))
         /\ isRunning' = FALSE
         /\ isPaused' = TRUE
         /\ UNCHANGED <<isInitialized, config>>
         /\ UNCHANGED <<startTime, endTime, intervalId, activeTimers>>

\* step()
Step(results) ==
  IF ~isInitialized
    THEN /\ Called("step", "throw", {})
         /\ UNCHANGED engineVars
    ELSE /\ currentTick < MaxTick
         /\ executeSimulationTick(results)
         /\ Called("step", "ok", tickLog(worldAgents, agents, results))
         /\ UNCHANGED <<isInitialized, config>>
         /\ UNCHANGED runVars

\* the interval callback installed by startSimulationLoop()
TimerFire(results) ==
  /\ activeTimers > 0
  /\ IF isRunning
       THEN /\ currentTick < MaxTick
            /\ executeSimulationTick(results)
            /\ Called("timer", "ok", tickLog(worldAgents, agents, results))
       ELSE /\ Called("timer", "idle", {})
            /\ UNCHANGED <<worldVars, tickVars>>
  /\ UNCHANGED <<isInitialized, config>>
  /\ UNCHANGED runVars

\* addAgent with the agent limit checked by > instead of >=.
addAgentWarningLimitOffByOne(agent, position) ==
  IF Len(validateAgent(agent)) > 0 THEN "Agent validation failed"
  ELSE IF ~isValidPosition(position, config) THEN "Invalid position"
  ELSE IF grid[position].occupant # NoAgent /\ config.maxAgentsPerCell <= 1
    THEN "Position is already occupied"
  ELSE IF grid[position].type = "wall" THEN "Cannot place agent on wall"
  ELSE IF Len(agents) > config.maxAgents THEN "Maximum agent limit reached"
  ELSE ""

\* addAgent: the warning of the first check that rejects the call, "" if
\* every check passes
addAgentWarning(agent, position) ==
  IF Len(validateAgent(agent)) > 0 THEN "Agent validation failed"
  ELSE IF ~isValidPosition(position, config) THEN "Invalid position"
  ELSE IF grid[position].occupant # NoAgent /\ config.maxAgentsPerCell <= 1
    THEN "Position is already occupied"
  ELSE IF grid[position].type = "wall" THEN "Cannot place agent on wall"
  ELSE IF Len(agents) >= config.maxAgents THEN "Maximum agent limit reached"
  ELSE ""

\* addAgent(agent, position)
AddAgent(agent, position) ==
  IF ~isInitialized
    THEN /\ Called("addAgent", "throw", {})
         /\ UNCHANGED engineVars
  ELSE IF addAgentWarning(agent, position) # ""
    THEN /\ Called("addAgent", "false", {addAgentWarning(agent, position)})
         /\ UNCHANGED engineVars
  ELSE /\ agents' = Append(agents, agent.id)
       /\ worldAgents' =
            [i \in DOMAIN worldAgents \cup {agent.id} |->
               IF i = agent.id
                 THEN [id |-> agent.id, position |-> position,
                       health |-> InitialHealth, energy |-> InitialEnergy,
                       inventory |-> << >>]
                 ELSE worldAgents[i]]
       /\ grid' = [grid EXCEPT ![position].occupant = agent.id]
       /\ Called("addAgent", "true", {})
       /\ UNCHANGED <<isInitialized, config>>
       /\ UNCHANGED <<tickVars, runVars>>

\* findIndex: the first index of the list holding the id, 0 if none
findIndex(agentList, agentId) ==
  IF \E k \in 1 .. Len(agentList) : agentList[k] = agentId
    THEN CHOOSE k \in 1 .. Len(agentList) :
           /\ agentList[k] = agentId
           /\ \A j \in 1 .. k - 1 : agentList[j] # agentId
    ELSE 0

\* splice(index, 1)
splice(agentList, index) ==
  [k \in 1 .. Len(agentList) - 1 |->
     IF k < index THEN agentList[k] ELSE agentList[k + 1]]

\* Whether the registered agent object with this id has a cleanup method:
\* agent a extends BaseAgent, agent b is a bare object with a step.
hasCleanup(agentId) == agentId = "a"

\* removeAgent(agentId) without the splice of the agent list.
RemoveAgentKeepsListed(agentId) ==
  LET agentIndex == findIndex(agents, agentId)
  IN  IF agentIndex = 0
        THEN /\ Called("removeAgent", "false", {})
             /\ UNCHANGED engineVars
        ELSE /\ IF agentId \in DOMAIN worldAgents
                  THEN /\ grid' = [grid EXCEPT
                            ![worldAgents[agentId].position].occupant = NoAgent]
                       /\ worldAgents' =
                            [i \in DOMAIN worldAgents \ {agentId} |->
                               worldAgents[i]]
                  ELSE UNCHANGED <<grid, worldAgents>>
             /\ UNCHANGED agents
             /\ last' = [op |-> "removeAgent", from |-> Status,
                         ret |-> "true", log |-> {},
                         cleanups |-> IF hasCleanup(agentId) THEN 1 ELSE 0]
             /\ UNCHANGED <<isInitialized, config>>
             /\ UNCHANGED <<tickVars, runVars>>

\* removeAgent(agentId)
RemoveAgent(agentId) ==
  LET agentIndex == findIndex(agents, agentId)
  IN  IF agentIndex = 0
        THEN /\ Called("removeAgent", "false", {})
             /\ UNCHANGED engineVars
        ELSE /\ IF agentId \in DOMAIN worldAgents
                  THEN /\ grid' = [grid EXCEPT
                            ![worldAgents[agentId].position].occupant = NoAgent]
                       /\ worldAgents' =
                            [i \in DOMAIN worldAgents \ {agentId} |->
                               worldAgents[i]]
                  ELSE UNCHANGED <<grid, worldAgents>>
             /\ agents' = splice(agents, agentIndex)
             /\ last' = [op |-> "removeAgent", from |-> Status,
                         ret |-> "true", log |-> {},
                         cleanups |-> IF hasCleanup(agentId) THEN 1 ELSE 0]
             /\ UNCHANGED <<isInitialized, config>>
             /\ UNCHANGED <<tickVars, runVars>>

\* A holder of getState() writes a cell's type through the shared grid.
SetWall(position) ==
  /\ position \in DOMAIN grid
  /\ grid[position].type # "wall"
  /\ grid' = [grid EXCEPT ![position].type = "wall"]
  /\ Called("setWall", "ok", {})
  /\ UNCHANGED <<isInitialized, config, worldAgents, agents>>
  /\ UNCHANGED <<tickVars, runVars>>

\* The callers register each agent once: addAgent is called with agents
\* whose id no registered agent has.
UnregisteredAgents ==
  {agent \in AgentObjects : \A k \in 1 .. Len(agents) : agents[k] # agent.id}

Next ==
  \/ /\ \E c \in Configs : Initialize(c)
     /\ UNCHANGED <<wasmVars, agentVars, memoryVars>>
  \/ /\ Play
     /\ UNCHANGED <<wasmVars, agentVars, memoryVars>>
  \/ /\ Pause
     /\ UNCHANGED <<wasmVars, agentVars, memoryVars>>
  \/ /\ Reset
     /\ UNCHANGED <<wasmVars, agentVars, memoryVars>>
  \/ /\ \E results \in [1 .. Len(agents) -> StepResults] : Step(results)
     /\ UNCHANGED <<wasmVars, agentVars, memoryVars>>
  \/ /\ \E results \in [1 .. Len(agents) -> StepResults] : TimerFire(results)
     /\ UNCHANGED <<wasmVars, agentVars, memoryVars>>
  \/ /\ \E agent \in UnregisteredAgents, position \in PlacePositions :
          AddAgent(agent, position)
     /\ UNCHANGED <<wasmVars, agentVars, memoryVars>>
  \/ /\ \E agentId \in AgentIds : RemoveAgent(agentId)
     /\ UNCHANGED <<wasmVars, agentVars, memoryVars>>
  \/ /\ \E position \in WallPositions : SetWall(position)
     /\ UNCHANGED <<wasmVars, agentVars, memoryVars>>

Spec == Init /\ [][Next]_vars

\* -------------------------------------------- agents with arbitrary ids
\* addAgent is called with any agent object, whether or not its id is
\* registered already, on an engine initialized with BaseConfig.
NextIds ==
  \/ /\ Initialize(BaseConfig)
     /\ UNCHANGED <<wasmVars, agentVars, memoryVars>>
  \/ /\ Reset
     /\ UNCHANGED <<wasmVars, agentVars, memoryVars>>
  \/ /\ \E results \in [1 .. Len(agents) -> StepResults] : Step(results)
     /\ UNCHANGED <<wasmVars, agentVars, memoryVars>>
  \/ /\ \E agent \in AgentObjects, position \in PlacePositions :
          AddAgent(agent, position)
     /\ UNCHANGED <<wasmVars, agentVars, memoryVars>>
  \/ /\ \E agentId \in AgentIds : RemoveAgent(agentId)
     /\ UNCHANGED <<wasmVars, agentVars, memoryVars>>

SpecIds == Init /\ [][NextIds]_vars

\* --------------------------------------------- every accepted world rule
\* The configurations with each collision behaviour, for one and for two
\* agents per cell; validateConfig accepts them all.
RuleConfigs ==
  { [BaseConfig EXCEPT !.collisionBehavior = b, !.maxAgentsPerCell = m]
      : b \in {"block", "push", "overlap"}, m \in {1, 2} }

NextRules ==
  \/ /\ \E c \in RuleConfigs : Initialize(c)
     /\ UNCHANGED <<wasmVars, agentVars, memoryVars>>
  \/ /\ \E results \in [1 .. Len(agents) -> StepResults] : Step(results)
     /\ UNCHANGED <<wasmVars, agentVars, memoryVars>>
  \/ /\ \E agent \in UnregisteredAgents, position \in PlacePositions :
          AddAgent(agent, position)
     /\ UNCHANGED <<wasmVars, agentVars, memoryVars>>
  \/ /\ \E agentId \in AgentIds : RemoveAgent(agentId)
     /\ UNCHANGED <<wasmVars, agentVars, memoryVars>>

SpecRules == Init /\ [][NextRules]_vars

\* ------------------------------------- initialize and its configurations
\* The configurations initialize is called with when its validation is
\* examined: the fields at, below and above the limits of validateConfig,
\* and two configurations that violate every rule they can at once.
\* A configuration that is accepted has at most MaxGridSize cells.
SmallConfig ==
  [BaseConfig EXCEPT !.width = 1, !.height = 1, !.tickRate = 1,
                     !.maxAgents = 1]

SizeInputs == {0 - 1, 0, 1, MaxGridSize, MaxGridSize + 1}

ConfigInputs ==
  { c \in UNION { { [SmallConfig EXCEPT !.width = w, !.height = h,
                                        !.maxAgents = n]
                      : n \in {0, 1, w * h, w * h + 1} }
                    : w \in SizeInputs, h \in SizeInputs } :
      Len(validateConfig(c)) = 0 => c.width * c.height <= MaxGridSize }
  \cup { [SmallConfig EXCEPT !.tickRate = t, !.hasWorldRules = r]
          : t \in {0, 1, MaxTickRate, MaxTickRate + 1}, r \in BOOLEAN }
  \cup { [SmallConfig EXCEPT !.width = 0 - 1, !.height = MaxGridSize + 1,
                             !.tickRate = t, !.maxAgents = 0,
                             !.hasWorldRules = FALSE]
          : t \in {0, MaxTickRate + 1} }

NextConfig ==
  \/ /\ \E c \in ConfigInputs : Initialize(c)
     /\ UNCHANGED <<wasmVars, agentVars, memoryVars>>
  \/ /\ Play
     /\ UNCHANGED <<wasmVars, agentVars, memoryVars>>
  \/ /\ Pause
     /\ UNCHANGED <<wasmVars, agentVars, memoryVars>>

SpecConfig == Init /\ [][NextConfig]_vars

\* ----------------------------------------------- actions of any shape
\* Objects an agent's step can return where an AgentAction is expected:
\* any type string, with or without direction and message.
ActionTypes == {"move", "wait", "communicate", "custom", "fly", ""}

ActionObjects ==
  { Action(t, d, m) : t \in ActionTypes, d \in {"", "east"},
                      m \in {"", "hello"} }

ActionResults == { [threw |-> FALSE, action |-> a] : a \in ActionObjects }

NextActions ==
  \/ /\ Initialize(BaseConfig)
     /\ UNCHANGED <<wasmVars, agentVars, memoryVars>>
  \/ /\ \E agent \in UnregisteredAgents, position \in PlacePositions :
          AddAgent(agent, position)
     /\ UNCHANGED <<wasmVars, agentVars, memoryVars>>
  \/ /\ \E results \in [1 .. Len(agents) -> ActionResults] : Step(results)
     /\ UNCHANGED <<wasmVars, agentVars, memoryVars>>

SpecActions == Init /\ [][NextActions]_vars

\* ------------------------------------- predefined agents on a world
\* The worlds the predefined agents' step is called on: a square grid with
\* at most one wall and at most two goal cells, agent a in a corner or next
\* to it diagonally, and at most one other agent, b.
WorldConfig == [BaseConfig EXCEPT !.width = WorldSize, !.height = WorldSize]

WorldCells == Cells([width |-> WorldSize, height |-> WorldSize])

SubjectPositions == { <<0, 0>>, <<1, 1>> }

worldGrid(walls, goals, placed) ==
  [p \in WorldCells |->
     [type |-> IF p \in walls THEN "wall"
               ELSE IF p \in goals THEN "goal" ELSE "empty",
      occupant |-> IF \E i \in DOMAIN placed : placed[i] = p
                     THEN CHOOSE i \in DOMAIN placed : placed[i] = p
                     ELSE NoAgent]]

worldMapping(placed) ==
  [i \in DOMAIN placed |->
     [id |-> i, position |-> placed[i], health |-> InitialHealth,
      energy |-> InitialEnergy, inventory |-> << >>]]

Placements ==
  { [i \in {"a"} |-> pa] : pa \in SubjectPositions }
  \cup { [i \in {"a", "b"} |-> IF i = "a" THEN pa ELSE pb] :
           pa \in SubjectPositions, pb \in WorldCells \ SubjectPositions }

WallSets == { {} } \cup { {p} : p \in WorldCells }

GoalSets == { {} } \cup { {p, q} : p \in WorldCells, q \in WorldCells }

\* The engine after initialize(WorldConfig), the addAgent calls that place
\* the agents, and the assignments of cell types through getState().
WorldInit(walls, goals, placed) ==
  /\ isInitialized = TRUE
  /\ isRunning = FALSE
  /\ isPaused = FALSE
  /\ currentTick = 0
  /\ worldTick = 0
  /\ grid = worldGrid(walls, goals, placed)
  /\ worldAgents = worldMapping(placed)
  /\ agents = IF "b" \in DOMAIN placed THEN <<"a", "b">> ELSE <<"a">>
  /\ config = WorldConfig
  /\ startTime = NoTime
  /\ endTime = NoTime
  /\ intervalId = FALSE
  /\ activeTimers = 0
  /\ last = [op |-> "addAgent", from |-> "stopped", ret |-> "true",
             log |-> {}, cleanups |-> 0]
  /\ wasmInstance = FALSE
  /\ wasmExports = "none"
  /\ executionSandbox = FALSE
  /\ wasmLast = [op |-> "new", ret |-> "return"]
  /\ NoSandbox
  /\ currentPatrolIndex = 0
  /\ patrolCalls = 0
  /\ agentLast = [class |-> "none"]

\* The worldState argument of a step call: the engine's world, or a copy
\* of it whose grid is the empty array.
worldStateArgument(malformed) ==
  [grid |-> IF malformed THEN << >> ELSE grid,
   dimensions |-> [width |-> config.width, height |-> config.height]]

\* randomWalker.step(worldState, agentState) for the state of agent id
RandomWalkerCall(id, malformed) ==
  /\ id \in DOMAIN worldAgents
  /\ \E action \in RandomWalkerStep(worldStateArgument(malformed),
                                      worldAgents[id].position) :
       agentLast' = [class |-> "RandomWalkerAgent", id |-> id,
                     malformed |-> malformed, action |-> action]
  /\ UNCHANGED <<patrolPattern, currentPatrolIndex, patrolCalls>>

\* goalSeeker.step(worldState, agentState) for the state of agent id
GoalSeekerCall(id, malformed) ==
  /\ id \in DOMAIN worldAgents
  /\ \E action \in GoalSeekerStep(worldStateArgument(malformed),
                                    worldAgents[id].position) :
       agentLast' = [class |-> "GoalSeekerAgent", id |-> id,
                     malformed |-> malformed, action |-> action]
  /\ UNCHANGED <<patrolPattern, currentPatrolIndex, patrolCalls>>

\* patrol.step(worldState, agentState) for the state of agent id
PatrolCall(id) ==
  /\ id \in DOMAIN worldAgents
  /\ patrolCalls < MaxCalls
  /\ LET result == PatrolAgentStep(patrolPattern, currentPatrolIndex,
                                   worldStateArgument(FALSE),
                                   worldAgents[id].position)
     IN  /\ currentPatrolIndex' = result.index
         /\ agentLast' = [class |-> "PatrolAgent", id |-> id,
                          malformed |-> FALSE, action |-> result.action,
                          index |-> currentPatrolIndex]
  /\ patrolCalls' = patrolCalls + 1
  /\ UNCHANGED patrolPattern

InitSeekers ==
  /\ \E walls \in WallSets, goals \in GoalSets, placed \in Placements :
       /\ \A i \in DOMAIN placed : placed[i] \notin walls
       /\ WorldInit(walls, goals, placed)
  /\ patrolPattern = DefaultPattern

NextSeekers ==
  \/ /\ \E id \in AgentIds, malformed \in BOOLEAN :
          RandomWalkerCall(id, malformed)
     /\ UNCHANGED <<engineVars, last, wasmVars, memoryVars>>
  \/ /\ \E id \in AgentIds, malformed \in BOOLEAN :
          GoalSeekerCall(id, malformed)
     /\ UNCHANGED <<engineVars, last, wasmVars, memoryVars>>

SpecSeekers == InitSeekers /\ [][NextSeekers]_vars

\* The patterns a PatrolAgent is built with: the default, the one of the
\* tests, a single direction, and two with a diagonal direction.
PatrolPatterns ==
  { DefaultPattern, <<"east", "east", "south">>, <<"west">>,
    <<"northeast">>, <<"south", "southeast">> }

InitPatrol ==
  /\ \E walls \in WallSets, placed \in Placements :
       /\ \A i \in DOMAIN placed : placed[i] \notin walls
       /\ WorldInit(walls, {}, placed)
  /\ patrolPattern \in PatrolPatterns

NextPatrol ==
  /\ PatrolCall("a")
  /\ UNCHANGED <<engineVars, last, wasmVars, memoryVars>>

SpecPatrol == InitPatrol /\ [][NextPatrol]_vars

\* ------------------------------------------------- the WASM agent
\* What the module's step export does when called: it throws (or traps),
\* or it never returns, or it returns a pointer to a result: a tag byte, a
\* direction code byte and the text that follows the length field.
ModuleResults ==
  [tag : 0 .. 4, code : {0, 2, 7, 8}, text : {"", "hi", "{}"}]

ModuleSteps ==
  { [throws |-> FALSE, hangs |-> FALSE, result |-> r] : r \in ModuleResults }
  \cup { [throws |-> t, hangs |-> ~t,
           result |-> [tag |-> 0, code |-> 0, text |-> ""]] : t \in BOOLEAN }

\* WASMMemoryManager.numberToDirection: directions[code] || North
DirectionCodes ==
  <<"north", "south", "east", "west",
    "northeast", "northwest", "southeast", "southwest">>

\* numberToDirection that reads the table from index 1.
numberToDirectionOffByOne(directionCode) ==
  IF directionCode \in DOMAIN DirectionCodes
    THEN DirectionCodes[directionCode] ELSE "north"

numberToDirection(directionCode) ==
  IF directionCode + 1 \in DOMAIN DirectionCodes
    THEN DirectionCodes[directionCode + 1] ELSE "north"

\* JSON.parse succeeds on these texts
JsonTexts == {"{}"}

\* WASMMemoryManager.deserializeAgentAction: an unknown tag and a custom
\* payload that does not parse throw inside the try, whose catch returns wait
deserializeAgentAction(result) ==
  CASE result.tag = 0 -> Action("wait", "", "")
    [] result.tag = 1 -> Action("move", numberToDirection(result.code), "")
    [] result.tag = 2 -> Action("communicate", "", result.text)
    [] result.tag = 3 -> IF result.text \in JsonTexts
                           THEN Action("custom", "", "")
                           ELSE Action("wait", "", "")
    [] OTHER          -> Action("wait", "", "")

\* WASMAgentValidator.validateAgentAction, on an action object
wasmValidateAgentAction(action) ==
  (IF action.type = ""
     THEN <<"Agent action must have a valid type">> ELSE <<>>)
  \o (IF action.type \notin {"move", "wait", "communicate", "custom"}
        THEN <<"Invalid action type">> ELSE <<>>)
  \o (IF action.type = "move" /\ action.direction = ""
        THEN <<"Move action must specify direction">> ELSE <<>>)
  \o (IF action.type = "communicate" /\ action.message = ""
        THEN <<"Communicate action must specify message">> ELSE <<>>)

\* WASMAgentValidator.validateExecutionEnvironment
validateExecutionEnvironment ==
  IF ~wasmInstance THEN <<"WASM module not instantiated">>
  ELSE IF wasmExports = "none" THEN <<"WASM module exports not available">>
  ELSE IF wasmExports # "step" THEN <<"WASM step function not callable">>
  ELSE <<>>

\* WASMAgentValidator.isSafeToExecute, for a compiled module that exports
\* a step function (validateModule reports nothing)
isSafeToExecute == Len(validateExecutionEnvironment) = 0

\* WASMExecutionSandbox.executeStep, an async function: the promise it
\* returns, how that promise settles, with which value, and how often the
\* module's step export was called.  The function body runs up to its
\* first await inside the caller's call, and the export is called before
\* that await: when the export does not return, neither does executeStep,
\* and the timer of the race never runs.
executeStep(moduleStep) ==
  IF ~isSafeToExecute
    THEN [returns |-> TRUE, settles |-> "rejected",
          value |-> Action("wait", "", ""), calls |-> 0]
  ELSE IF moduleStep.hangs
    THEN [returns |-> FALSE, settles |-> "never",
          value |-> Action("wait", "", ""), calls |-> 1]
  ELSE IF moduleStep.throws
    THEN [returns |-> TRUE, settles |-> "resolved",
          value |-> Action("wait", "", ""), calls |-> 1]
  ELSE IF Len(wasmValidateAgentAction(
                deserializeAgentAction(moduleStep.result))) > 0
    THEN [returns |-> TRUE, settles |-> "resolved",
          value |-> Action("wait", "", ""), calls |-> 1]
  ELSE [returns |-> TRUE, settles |-> "resolved",
        value |-> deserializeAgentAction(moduleStep.result), calls |-> 1]

\* `result as AgentAction` for the promise executeStep returns: a Promise
\* object has no type, direction or message
promiseAsAction(promise) == Action("", "", "")

\* WASMAgent.executeDirectly: calls the export when it is a function and
\* returns wait whatever happens
executeDirectly(moduleStep) ==
  [returns |-> ~(wasmExports = "step" /\ moduleStep.hangs),
   action |-> Action("wait", "", ""),
   calls |-> IF wasmExports = "step" THEN 1 ELSE 0]

\* WASMAgent.step without the try/catch around the execution.
WASMAgentStepNoFallback(moduleStep) ==
  IF ~wasmInstance \/ wasmExports = "none"
    THEN [op |-> "step", ret |-> "throw", sandboxed |-> executionSandbox,
          action |-> Action("", "", ""), calls |-> 0, promise |-> "none"]
  ELSE IF executionSandbox
    THEN LET promise == executeStep(moduleStep)
             action  == promiseAsAction(promise)
         IN  [op |-> "step",
              ret |-> IF ~promise.returns THEN "hang"
                      ELSE IF Len(validateAgentAction(action)) > 0
                        THEN "throw" ELSE "return",
              sandboxed |-> TRUE, action |-> action,
              calls |-> promise.calls, promise |-> promise.settles]
  ELSE [op |-> "step",
        ret |-> IF executeDirectly(moduleStep).returns
                  THEN "return" ELSE "hang",
        sandboxed |-> FALSE,
        action |-> executeDirectly(moduleStep).action,
        calls |-> executeDirectly(moduleStep).calls, promise |-> "none"]

\* WASMAgent.step that tests the instance only before it executes.
WASMAgentStepGuardInstanceOnly(moduleStep) ==
  IF ~wasmInstance
    THEN [op |-> "step", ret |-> "throw", sandboxed |-> executionSandbox,
          action |-> Action("", "", ""), calls |-> 0, promise |-> "none"]
  ELSE IF executionSandbox
    THEN LET promise == executeStep(moduleStep)
             action  == promiseAsAction(promise)
         IN  [op |-> "step",
              ret |-> IF promise.returns THEN "return" ELSE "hang",
              sandboxed |-> TRUE,
              action |-> IF Len(validateAgentAction(action)) > 0
                           THEN Action("wait", "", "") ELSE action,
              calls |-> promise.calls, promise |-> promise.settles]
  ELSE [op |-> "step",
        ret |-> IF executeDirectly(moduleStep).returns
                  THEN "return" ELSE "hang",
        sandboxed |-> FALSE,
        action |-> executeDirectly(moduleStep).action,
        calls |-> executeDirectly(moduleStep).calls, promise |-> "none"]

\* WASMAgent.step with the instance and exports test inside the try.
WASMAgentStepGuardInsideTry(moduleStep) ==
  IF ~wasmInstance \/ wasmExports = "none"
    THEN [op |-> "step", ret |-> "return", sandboxed |-> executionSandbox,
          action |-> Action("wait", "", ""), calls |-> 0, promise |-> "none"]
  ELSE IF executionSandbox
    THEN LET promise == executeStep(moduleStep)
             action  == promiseAsAction(promise)
         IN  [op |-> "step",
              ret |-> IF promise.returns THEN "return" ELSE "hang",
              sandboxed |-> TRUE,
              action |-> IF Len(validateAgentAction(action)) > 0
                           THEN Action("wait", "", "") ELSE action,
              calls |-> promise.calls, promise |-> promise.settles]
  ELSE [op |-> "step",
        ret |-> IF executeDirectly(moduleStep).returns
                  THEN "return" ELSE "hang",
        sandboxed |-> FALSE,
        action |-> executeDirectly(moduleStep).action,
        calls |-> executeDirectly(moduleStep).calls, promise |-> "none"]

\* WASMAgent.step: what the call does, given what the module's step export
\* would do
WASMAgentStep(moduleStep) ==
  IF ~wasmInstance \/ wasmExports = "none"
    THEN [op |-> "step", ret |-> "throw", sandboxed |-> executionSandbox,
          action |-> Action("", "", ""), calls |-> 0, promise |-> "none"]
  ELSE IF executionSandbox
    THEN LET promise == executeStep(moduleStep)
             action  == promiseAsAction(promise)
         IN  \* validateAction throws on an invalid action, and the catch
             \* returns the fallback action
             [op |-> "step",
              ret |-> IF promise.returns THEN "return" ELSE "hang",
              sandboxed |-> TRUE,
              action |-> IF Len(validateAgentAction(action)) > 0
                           THEN Action("wait", "", "") ELSE action,
              calls |-> promise.calls, promise |-> promise.settles]
  ELSE [op |-> "step",
        ret |-> IF executeDirectly(moduleStep).returns
                  THEN "return" ELSE "hang",
        sandboxed |-> FALSE,
        action |-> executeDirectly(moduleStep).action,
        calls |-> executeDirectly(moduleStep).calls, promise |-> "none"]

\* agent.step(worldState, agentState).  A call that does not return keeps
\* the one thread: nothing else runs after it.
WasmStep(moduleStep) ==
  /\ wasmLast.ret # "hang"
  /\ wasmLast' = [WASMAgentStep(moduleStep) EXCEPT !.op = "step"]
                   @@ [moduleStep |-> moduleStep]
  /\ UNCHANGED <<wasmInstance, wasmExports, executionSandbox>>

\* agent.initialize(): instantiateModule fails, or the module's initialize
\* export throws after instance and exports are set, or the instance lacks
\* a step export and validateExecutionEnvironment reports it, or all goes
\* well and the sandbox is created when sandboxing is enabled and the
\* instance exports a memory
WasmInitialize(outcome, enableSandboxing, exportsMemory) ==
  /\ wasmLast.ret # "hang"
  /\ wasmInstance' = IF outcome = "instantiateFails" THEN wasmInstance
                     ELSE TRUE
  /\ wasmExports' = IF outcome = "instantiateFails" THEN wasmExports
                    ELSE IF outcome = "stepNotExported" THEN "nostep"
                    ELSE "step"
  /\ executionSandbox' =
       IF outcome = "ok" /\ enableSandboxing /\ exportsMemory
         THEN TRUE ELSE executionSandbox
  /\ wasmLast' = [op |-> "initialize",
                  ret |-> IF outcome = "ok" THEN "return" ELSE "throw"]

\* How often cleanup() calls the module's cleanup export, which is absent,
\* returns or throws.
cleanupCalls(cleanupExport) ==
  IF wasmExports # "none" /\ cleanupExport # "absent" THEN 1 ELSE 0

\* agent.cleanup() that drops the sandbox and keeps the module's handles.
WasmCleanupKeepsModule(cleanupExport) ==
  /\ wasmLast.ret # "hang"
  /\ executionSandbox' = FALSE
  /\ wasmLast' = [op |-> "cleanup", ret |-> "return",
                  cleanupCalls |-> cleanupCalls(cleanupExport)]
  /\ UNCHANGED <<wasmInstance, wasmExports>>

\* agent.cleanup(): an error of the cleanup export is caught and logged
WasmCleanup(cleanupExport) ==
  /\ wasmLast.ret # "hang"
  /\ wasmInstance' = FALSE
  /\ wasmExports' = "none"
  /\ executionSandbox' = FALSE
  /\ wasmLast' = [op |-> "cleanup", ret |-> "return",
                  cleanupCalls |-> cleanupCalls(cleanupExport)]

\* The holder of the module object assigns its instance and exports, as
\* the tests do before and after they build an agent on it.
ModuleSet(instance, exports) ==
  /\ wasmLast.ret # "hang"
  /\ wasmInstance' = instance
  /\ wasmExports' = exports
  /\ wasmLast' = [op |-> "moduleSet", ret |-> "return"]
  /\ UNCHANGED executionSandbox

NextWasm ==
  \/ /\ \E moduleStep \in ModuleSteps : WasmStep(moduleStep)
     /\ UNCHANGED <<engineVars, last, agentVars, memoryVars>>
  \/ /\ \E outcome \in {"ok", "instantiateFails", "initializeExportThrows",
                         "stepNotExported"},
            enableSandboxing \in BOOLEAN, exportsMemory \in BOOLEAN :
          WasmInitialize(outcome, enableSandboxing, exportsMemory)
     /\ UNCHANGED <<engineVars, last, agentVars, memoryVars>>
  \/ /\ \E cleanupExport \in {"absent", "returns", "throws"} :
          WasmCleanup(cleanupExport)
     /\ UNCHANGED <<engineVars, last, agentVars, memoryVars>>
  \/ /\ \E instance \in BOOLEAN, exports \in {"none", "nostep", "step"} :
          ModuleSet(instance, exports)
     /\ UNCHANGED <<engineVars, last, agentVars, memoryVars>>

SpecWasm == Init /\ [][NextWasm]_vars

\* ------------------------------------ the sandbox's memory manager
\* WebAssembly page size, and the sizes allocateMemory is called with
PageSize == 65536
WorldStateSlot == 1024
AgentStateSlot == 64

\* Invocations of executeStep that may be suspended at the same time
MaxPending == 2

\* memory.buffer.byteLength
byteLength(pages) == pages * PageSize

\* Math.ceil(n / PageSize), n >= 0
requiredPages(n) == (n + PageSize - 1) \div PageSize

\* WASMMemoryManager.allocateMemory: bumps nextOffset by size and grows
\* the memory by one page when the new offset lies beyond the pages held
allocateMemory(offset, pages, size) ==
  [offset |-> offset,
   nextOffset |-> offset + size,
   pages |-> IF requiredPages(offset + size) > pages
               THEN pages + 1 ELSE pages]

\* The worlds serialized, by their dimensions and the size of the agent
\* mapping: square grids up to the MaxGridSize validateConfig admits.
SerializedSizes == {1, 22, 23, 181, MaxGridSize}
SerializedWorlds ==
  { [width |-> n, height |-> n, agentCount |-> k] :
      n \in SerializedSizes, k \in {0, 6} }

\* The number of bytes serializeWorldState writes when every write is in
\* range: three u32, two bytes a cell, a u32 and two u32 an agent
worldStateBytes(world) ==
  12 + 2 * world.width * world.height + 4 + 8 * world.agentCount

\* The bytes written before the first write out of range, when `room`
\* bytes lie between the start offset and the end of the buffer: a
\* DataView setter throws RangeError and writes nothing in that case.
worldStateWritten(world, room) ==
  LET cells == 2 * world.width * world.height
  IN  IF room >= worldStateBytes(world) THEN worldStateBytes(world)
      ELSE IF room < 0 THEN 0
      ELSE IF room < 12 THEN 4 * (room \div 4)
      ELSE IF room < 12 + cells THEN room
      ELSE 12 + cells + 4 * ((room - 12 - cells) \div 4)

\* WASMMemoryManager.serializeWorldState: allocates WorldStateSlot bytes
\* and writes from the slot's offset on, whatever the world's size
serializeWorldState(offset, pages, world) ==
  LET slot == allocateMemory(offset, pages, WorldStateSlot)
      room == byteLength(slot.pages) - slot.offset
  IN  [ptr |-> slot.offset,
       end |-> slot.offset + worldStateWritten(world, room),
       throws |-> worldStateWritten(world, room) < worldStateBytes(world),
       nextOffset |-> slot.nextOffset,
       pages |-> slot.pages]

\* WASMMemoryManager.serializeAgentState: allocates AgentStateSlot bytes
\* and writes five u32
serializeAgentState(offset, pages) ==
  LET slot == allocateMemory(offset, pages, AgentStateSlot)
      room == byteLength(slot.pages) - slot.offset
      written == IF room >= 20 THEN 20
                 ELSE IF room < 0 THEN 0 ELSE 4 * (room \div 4)
  IN  [ptr |-> slot.offset,
       end |-> slot.offset + written,
       throws |-> written < 20,
       nextOffset |-> slot.nextOffset,
       pages |-> slot.pages]

\* The byte at index k of memory.buffer, 0 <= k < byteLength
byteAt(pages, tail, k) ==
  IF k >= byteLength(pages) - Len(tail)
    THEN tail[k - (byteLength(pages) - Len(tail)) + 1]
    ELSE 0

\* DataView.getUint8 / getUint32 throw RangeError unless the bytes read lie
\* inside the buffer; so does new Uint8Array(buffer, offset, length)
inRange(pages, offset, length) ==
  offset >= 0 /\ length >= 0 /\ offset + length <= byteLength(pages)

\* DataView.getUint32(offset, true): little-endian
getUint32(pages, tail, offset) ==
  byteAt(pages, tail, offset)
    + 256 * byteAt(pages, tail, offset + 1)
    + 65536 * byteAt(pages, tail, offset + 2)
    + 16777216 * byteAt(pages, tail, offset + 3)

\* The bytes of new Uint8Array(buffer, offset, length)
bytesAt(pages, tail, offset, length) ==
  [k \in 1 .. length |-> byteAt(pages, tail, offset + k - 1)]

\* JSON.parse on the text of these bytes.  Of the bytes the memories
\* below hold (control characters below 9, the digit 1, an opening
\* brace), only a non-empty run of digits is a JSON text.
Digit1 == 49
OpenBrace == 123
jsonParses(bytes) ==
  Len(bytes) > 0 /\ \A k \in 1 .. Len(bytes) : bytes[k] = Digit1

\* An action as deserializeAgentAction builds it; the message is the
\* sequence of the bytes decoded, the custom data the bytes parsed
ActionAt(t, d, m, c) ==
  [type |-> t, direction |-> d, message |-> m, customData |-> c]

\* WASMMemoryManager.deserializeAgentAction(ptr) on the memory of `pages`
\* pages ending with the bytes `tail`: every throw inside the try is
\* caught and gives wait
deserializeAgentActionAt(pages, tail, ptr) ==
  LET wait == ActionAt("wait", "", << >>, << >>)
  IN
  IF ~inRange(pages, ptr, 1) THEN wait
  ELSE
    LET actionType == byteAt(pages, tail, ptr)
        offset == ptr + 1
    IN  CASE actionType = 0 -> wait
          [] actionType = 1 ->
               IF ~inRange(pages, offset, 1) THEN wait
               ELSE ActionAt("move",
                             numberToDirection(byteAt(pages, tail, offset)),
                             << >>, << >>)
          [] actionType = 2 ->
               IF ~inRange(pages, offset, 4) THEN wait
               ELSE IF ~inRange(pages, offset + 4,
                                getUint32(pages, tail, offset)) THEN wait
               ELSE ActionAt("communicate", "",
                             bytesAt(pages, tail, offset + 4,
                                     getUint32(pages, tail, offset)),
                             << >>)
          [] actionType = 3 ->
               IF ~inRange(pages, offset, 4) THEN wait
               ELSE IF ~inRange(pages, offset + 4,
                                getUint32(pages, tail, offset)) THEN wait
               ELSE IF ~jsonParses(bytesAt(pages, tail, offset + 4,
                                           getUint32(pages, tail, offset)))
                 THEN wait
               ELSE ActionAt("custom", "", << >>,
                             bytesAt(pages, tail, offset + 4,
                                     getUint32(pages, tail, offset)))
          [] OTHER -> wait

\* The action object as the validators read it: `!action.message` holds
\* for the empty text
asAction(action) ==
  Action(action.type, action.direction,
         IF action.message = << >> THEN "" ELSE "text")

\* What the module's step export does when executeStep calls it: it throws
\* (or traps), or it returns a number, taken as the offset of its result
ResultPtrs == {0, 4 * PageSize}
ExportOutcomes ==
  { [throws |-> TRUE, resultPtr |-> 0] }
  \cup { [throws |-> FALSE, resultPtr |-> ptr] : ptr \in ResultPtrs }

\* A WASMAgent after initialize() has instantiated its module and built
\* the sandbox; the engine is as constructed.
SandboxBuilt ==
  /\ isInitialized = FALSE
  /\ isRunning = FALSE
  /\ isPaused = FALSE
  /\ currentTick = 0
  /\ worldTick = 0
  /\ grid = createWorldGrid(InitialConfig)
  /\ worldAgents = << >>
  /\ agents = << >>
  /\ config = InitialConfig
  /\ startTime = NoTime
  /\ endTime = NoTime
  /\ intervalId = FALSE
  /\ activeTimers = 0
  /\ last = [op |-> "new", from |-> "stopped", ret |-> "ok", log |-> {},
             cleanups |-> 0]
  /\ wasmInstance = TRUE
  /\ wasmExports = "step"
  /\ executionSandbox = TRUE
  /\ wasmLast = [op |-> "initialize", ret |-> "return"]
  /\ patrolPattern = DefaultPattern
  /\ currentPatrolIndex = 0
  /\ patrolCalls = 0
  /\ agentLast = [class |-> "none"]

\* new WASMExecutionSandbox(config, memory) on the memory the instance
\* exports, which holds the pages the module declares and no data
InitMemory ==
  /\ SandboxBuilt
  /\ memoryPages \in {0, 1, 2}
  /\ memoryTail = << >>
  /\ nextOffset = 0
  /\ pendingSteps = << >>
  /\ memoryLast = [op |-> "new"]

\* sandbox.executeStep(wasmModule, worldState, agentState) up to its
\* return: the call of an async function runs its body up to the first
\* await.  The guard throws before the try; a throw of a serialization or
\* of the export is caught inside the call, the catch returns wait and the
\* finally block resets the allocator; when the export returns, the
\* function is suspended at `await Promise.race(...)` with the offsets
\* still allocated.
ExecuteStepBegin(world, export) ==
  /\ Len(pendingSteps) < MaxPending
  /\ LET w == serializeWorldState(nextOffset, memoryPages, world)
         a == serializeAgentState(w.nextOffset, w.pages)
         call == [op |-> "executeStep", world |-> world,
                  worldStatePtr |-> w.ptr, worldStateEnd |-> w.end,
                  agentStatePtr |-> a.ptr, agentStateEnd |-> a.end]
     IN  IF ~isSafeToExecute
           THEN /\ memoryLast' = [op |-> "executeStep", world |-> world,
                                  outcome |-> "rejected",
                                  serialized |-> FALSE, called |-> FALSE]
                /\ UNCHANGED <<memoryPages, nextOffset, pendingSteps>>
         ELSE IF w.throws
           THEN /\ memoryLast' = call @@ [outcome |-> "wait",
                                          serialized |-> FALSE,
                                          called |-> FALSE]
                /\ memoryPages' = w.pages
                /\ nextOffset' = 0
                /\ UNCHANGED pendingSteps
         ELSE IF a.throws
           THEN /\ memoryLast' = call @@ [outcome |-> "wait",
                                          serialized |-> FALSE,
                                          called |-> FALSE]
                /\ memoryPages' = a.pages
                /\ nextOffset' = 0
                /\ UNCHANGED pendingSteps
         ELSE IF export.throws
           THEN /\ memoryLast' = call @@ [outcome |-> "wait",
                                          serialized |-> TRUE,
                                          called |-> TRUE]
                /\ memoryPages' = a.pages
                /\ nextOffset' = 0
                /\ UNCHANGED pendingSteps
         ELSE /\ memoryLast' = call @@ [outcome |-> "suspended",
                                        serialized |-> TRUE,
                                        called |-> TRUE]
              /\ memoryPages' = a.pages
              /\ nextOffset' = a.nextOffset
              /\ pendingSteps' = Append(pendingSteps, export.resultPtr)
  /\ UNCHANGED memoryTail

\* The rest of the executeStep invocation suspended first, run as a
\* microtask once the race has settled: the result is deserialized and
\* validated, the promise resolves with it or with wait, and the finally
\* block resets the allocator.
ExecuteStepSettle ==
  /\ Len(pendingSteps) > 0
  /\ LET action == deserializeAgentActionAt(memoryPages, memoryTail,
                                            Head(pendingSteps))
     IN  memoryLast' =
           [op |-> "settle",
            value |-> IF Len(wasmValidateAgentAction(asAction(action))) > 0
                        THEN ActionAt("wait", "", << >>, << >>)
                        ELSE action]
  /\ pendingSteps' = Tail(pendingSteps)
  /\ nextOffset' = 0
  /\ UNCHANGED <<memoryPages, memoryTail>>

NextMemory ==
  \/ /\ \E world \in SerializedWorlds, export \in ExportOutcomes :
          ExecuteStepBegin(world, export)
     /\ UNCHANGED <<engineVars, last, wasmVars, agentVars>>
  \/ /\ ExecuteStepSettle
     /\ UNCHANGED <<engineVars, last, wasmVars, agentVars>>
  \/ /\ \E instance \in BOOLEAN, exports \in {"none", "nostep", "step"} :
          ModuleSet(instance, exports)
     /\ UNCHANGED <<engineVars, last, agentVars, memoryVars>>

SpecMemory == InitMemory /\ [][NextMemory]_vars

\* ------------------------------------------- results in memory
\* The longest text a result in memory holds
MaxText == 2

\* Texts of the bytes 1 and {, up to MaxText bytes
DecodeTexts ==
  UNION { [1 .. n -> {Digit1, OpenBrace}] : n \in 0 .. MaxText }

\* What the module has written at the end of its memory: a byte read as
\* the tag, a byte read as direction code or as the low byte of a length,
\* the three high bytes of the length, and a text
DecodeTails ==
  { <<tag, low, high, 0, 0>> \o text :
      tag \in 0 .. 4, low \in 0 .. 8, high \in {0, 1}, text \in DecodeTexts }

\* The offsets the module returns: an offset up to the end of the buffer,
\* the offset one past it, offset 0, or a negative number
DecodePtrs(pages) ==
  { byteLength(pages) - k : k \in 0 .. 5 + MaxText + 1 } \cup {0, 0 - 1}

\* A one-page memory whose last bytes the module has written
InitDecode ==
  /\ SandboxBuilt
  /\ memoryPages = 1
  /\ memoryTail \in DecodeTails
  /\ nextOffset = 0
  /\ pendingSteps = << >>
  /\ memoryLast = [op |-> "new"]

\* memoryManager.deserializeAgentAction(ptr)
Deserialize(ptr) ==
  /\ memoryLast' =
       [op |-> "deserializeAgentAction", ptr |-> ptr, returns |-> TRUE,
        action |-> deserializeAgentActionAt(memoryPages, memoryTail, ptr)]
  /\ UNCHANGED <<memoryPages, memoryTail, nextOffset, pendingSteps>>

NextDecode ==
  /\ \E ptr \in DecodePtrs(memoryPages) : Deserialize(ptr)
  /\ UNCHANGED <<engineVars, last, wasmVars, agentVars>>

SpecDecode == InitDecode /\ [][NextDecode]_vars

\* ---------------------------------- a WASM agent in the engine
\* The engine with an agent `a` of a predefined class and a WASMAgent `b`,
\* built on a module that is loaded and not instantiated.
PlainAgent == [id |-> "a", name |-> "Agent", type |-> "predefined",
               hasStep |-> TRUE]
WasmAgent == [id |-> "b", name |-> "Agent", type |-> "wasm",
              hasStep |-> TRUE]

\* How far agent.initialize() of the WASM agent has come: never called,
\* called and suspended at `await instantiateModule`, rejected, resolved
InitStatus ==
  IF wasmLast.op = "step" THEN wasmLast.init
  ELSE IF wasmLast.op # "initialize" THEN "none"
  ELSE IF wasmLast.ret = "pending" THEN "pending"
  ELSE IF wasmLast.ret = "return" THEN "done"
  ELSE "failed"

\* engine.addAgent(wasmAgent, position): addAgent calls agent.initialize
\* once the checks have passed and does not wait for the promise.  The
\* call returns at the first await, before anything is assigned.
AddWasmAgent(position) ==
  /\ AddAgent(WasmAgent, position)
  /\ wasmLast' = IF last'.ret = "true"
                   THEN [op |-> "initialize", ret |-> "pending"]
                   ELSE wasmLast
  /\ UNCHANGED <<wasmInstance, wasmExports, executionSandbox>>

\* The rest of agent.initialize(), run when instantiateModule has settled
WasmInstantiated(outcome, enableSandboxing, exportsMemory) ==
  /\ InitStatus = "pending"
  /\ WasmInitialize(outcome, enableSandboxing, exportsMemory)

\* What the tick gets from each listed agent: from the WASM agent what
\* WASMAgent.step does, from another agent what `results` says
tickResults(results, moduleStep) ==
  [i \in 1 .. Len(agents) |->
     IF agents[i] = WasmAgent.id
       THEN [threw |-> WASMAgentStep(moduleStep).ret = "throw",
             action |-> WASMAgentStep(moduleStep).action]
       ELSE results[i]]

\* In the engine the module's step export throws, or returns a result
\* with tag 0 (wait) or with tag 1 and code 0 (a move north)
EngineModuleSteps ==
  { moduleStep \in ModuleSteps :
      /\ ~moduleStep.hangs
      /\ moduleStep.result.tag \in {0, 1}
      /\ moduleStep.result.code = 0
      /\ moduleStep.result.text = "" }

\* engine.step() with the WASM agent among the agents
StepWithWasm(results, moduleStep) ==
  /\ Step(tickResults(results, moduleStep))
  /\ wasmLast' =
       IF isInitialized /\ \E i \in 1 .. Len(agents) : agents[i] = WasmAgent.id
         THEN WASMAgentStep(moduleStep)
                @@ [init |-> InitStatus,
                    results |-> tickResults(results, moduleStep)]
         ELSE wasmLast
  /\ UNCHANGED <<wasmInstance, wasmExports, executionSandbox>>

NextEngineWasm ==
  \/ /\ Initialize(BaseConfig)
     /\ UNCHANGED <<wasmVars, agentVars, memoryVars>>
  \/ /\ \E position \in PlacePositions :
          /\ PlainAgent \in UnregisteredAgents
          /\ AddAgent(PlainAgent, position)
     /\ UNCHANGED <<wasmVars, agentVars, memoryVars>>
  \/ /\ \E position \in PlacePositions :
          /\ InitStatus = "none"
          /\ AddWasmAgent(position)
     /\ UNCHANGED <<agentVars, memoryVars>>
  \/ /\ \E outcome \in {"ok", "instantiateFails", "initializeExportThrows",
                         "stepNotExported"},
            enableSandboxing \in BOOLEAN, exportsMemory \in BOOLEAN :
          WasmInstantiated(outcome, enableSandboxing, exportsMemory)
     /\ UNCHANGED <<engineVars, last, agentVars, memoryVars>>
  \/ /\ \E result \in StepResults, moduleStep \in EngineModuleSteps :
          StepWithWasm([i \in 1 .. Len(agents) |-> result], moduleStep)
     /\ UNCHANGED <<agentVars, memoryVars>>

SpecEngineWasm == Init /\ [][NextEngineWasm]_vars

\* ------------------------------- agents that call back into the engine
\* An agent's step holds a reference to the engine and calls removeAgent
\* before it returns its action.  The loop of executeSimulationTick is
\* `for (const agent of this.state.agents)`: the array iterator reads the
\* array's length and the element at its index anew in each round, so a
\* splice made during a round moves the elements the next rounds see.

\* What a step does: the id it passes to removeAgent ("" when it makes no
\* call), and the action it returns
ReentrantResults ==
  [threw : {FALSE}, removes : {""} \cup AgentIds,
   action : {Action("wait", "", ""), Action("move", "east", "")}]

\* engine.removeAgent(agentId) on the state the loop works on: the grid,
\* the agent mapping, the agent list, and the counts the tick keeps here
removeAgentDuringTick(loop, agentId) ==
  LET agentIndex == findIndex(loop.list, agentId)
  IN  IF agentIndex = 0 THEN loop
      ELSE [grid |-> IF agentId \in DOMAIN loop.agents
                       THEN [loop.grid EXCEPT
                               ![loop.agents[agentId].position].occupant =
                                 NoAgent]
                       ELSE loop.grid,
            agents |-> [i \in DOMAIN loop.agents \ {agentId} |->
                          loop.agents[i]],
            list |-> splice(loop.list, agentIndex),
            stepped |-> loop.stepped,
            cleanups |-> loop.cleanups
                           + (IF hasCleanup(agentId) THEN 1 ELSE 0)]

\* executeMove on an agentState object that removeAgent has deleted from
\* the mapping during the step: the loop still holds the object, and the
\* move reads and writes the grid with it
executeMoveDetached(gridNow, rules, id, position, direction) ==
  LET newPosition == calculateNewPosition(position, direction)
  IN  IF ~isValidPosition(newPosition, rules) THEN gridNow
      ELSE IF gridNow[newPosition].type = "wall" THEN gridNow
      ELSE IF gridNow[newPosition].occupant # NoAgent
              /\ rules.collisionBehavior = "block" THEN gridNow
      ELSE IF ~rules.allowDiagonalMovement /\ isDiagonalMove(direction)
        THEN gridNow
      ELSE [[gridNow EXCEPT ![position].occupant = NoAgent]
              EXCEPT ![newPosition].occupant = id]

\* executeAgentAction(agent, agentState, action) after the step returned
executeReturnedAction(loop, rules, id, position, action) ==
  IF id \in DOMAIN loop.agents
    THEN LET world == executeAgentAction(
                        [grid |-> loop.grid, agents |-> loop.agents],
                        rules, id, action)
         IN  [loop EXCEPT !.grid = world.grid, !.agents = world.agents]
  ELSE IF Len(validateAgentAction(action)) > 0 \/ action.type # "move"
    THEN loop
  ELSE [loop EXCEPT !.grid = executeMoveDetached(loop.grid, rules, id,
                                                 position, action.direction)]

\* The loop of executeSimulationTick from index `index` on
RECURSIVE tickLoop(_, _, _, _)
tickLoop(loop, rules, results, index) ==
  IF index > Len(loop.list) THEN loop
  ELSE LET id == loop.list[index]
       IN  IF id \notin DOMAIN loop.agents
             THEN tickLoop(loop, rules, results, index + 1)
           ELSE
             LET position == loop.agents[id].position
                 called == [loop EXCEPT !.stepped = Append(@, id)]
                 during == IF results[id].removes = "" THEN called
                           ELSE removeAgentDuringTick(called,
                                                      results[id].removes)
             IN  tickLoop(
                   executeReturnedAction(during, rules, id, position,
                                         results[id].action),
                   rules, results, index + 1)

\* engine.step() with agents whose steps call removeAgent
StepReentrant(results) ==
  IF ~isInitialized
    THEN /\ Called("step", "throw", {})
         /\ UNCHANGED engineVars
    ELSE /\ currentTick < MaxTick
         /\ LET loop == tickLoop([grid |-> grid, agents |-> worldAgents,
                                  list |-> agents, stepped |-> << >>,
                                  cleanups |-> 0],
                                 config, results, 1)
            IN  /\ grid' = loop.grid
                /\ worldAgents' = loop.agents
                /\ agents' = loop.list
                /\ last' = [op |-> "step", from |-> Status, ret |-> "ok",
                            log |-> {}, cleanups |-> loop.cleanups,
                            stepped |-> loop.stepped,
                            registered |-> agents]
         /\ currentTick' = currentTick + 1
         /\ worldTick' = currentTick + 1
         /\ UNCHANGED <<isInitialized, config>>
         /\ UNCHANGED runVars

NextReentrant ==
  \/ /\ Initialize(BaseConfig)
     /\ UNCHANGED <<wasmVars, agentVars, memoryVars>>
  \/ /\ \E agent \in UnregisteredAgents, position \in PlacePositions :
          AddAgent(agent, position)
     /\ UNCHANGED <<wasmVars, agentVars, memoryVars>>
  \/ /\ \E results \in [AgentIds -> ReentrantResults] : StepReentrant(results)
     /\ UNCHANGED <<wasmVars, agentVars, memoryVars>>

SpecReentrant == Init /\ [][NextReentrant]_vars

\* ------------------------------------------------------------ claims
DefaultRules ==
  config.collisionBehavior = "block" /\ config.maxAgentsPerCell = 1

\* the last call was a tick: a step() or a firing of the interval
IsTick(call) == call.op \in {"step", "timer"} /\ call.ret = "ok"

\* C1: under the default rules, with agents of distinct ids, in every
\* reachable state every agent of the mapping is at a position inside the
\* grid, the cell there has the agent's id as occupant, no other cell has
\* that id as occupant, and every occupant is a key of the mapping.
C1_OccupancyMatchesMapping ==
  DefaultRules =>
    /\ \A id \in DOMAIN worldAgents :
         /\ isValidPosition(worldAgents[id].position, config)
         /\ worldAgents[id].position \in DOMAIN grid
         /\ grid[worldAgents[id].position].occupant = id
         /\ \A p \in DOMAIN grid :
              grid[p].occupant = id => p = worldAgents[id].position
    /\ \A p \in DOMAIN grid :
         grid[p].occupant # NoAgent => grid[p].occupant \in DOMAIN worldAgents

\* C1 witness: after a tick, two agents are registered (b first) and one
\* of them has moved (it paid energy).
C1_Witness ==
  /\ DefaultRules
  /\ IsTick(last)
  /\ Len(agents) = 2
  /\ agents[1] = "b"
  /\ \E id \in DOMAIN worldAgents : worldAgents[id].energy < InitialEnergy

\* C2: currentTick equals worldState.tick in every reachable state; a
\* step() or a firing of the timer raises both by exactly 1; the counters
\* decrease only in initialize and reset, which set both to 0.
C2_TickCounters ==
  /\ [](currentTick = worldTick)
  /\ [][/\ IsTick(last') => /\ currentTick' = currentTick + 1
                             /\ worldTick' = worldTick + 1
        /\ (currentTick' < currentTick \/ worldTick' < worldTick) =>
             /\ last'.op \in {"initialize", "reset"}
             /\ currentTick' = 0
             /\ worldTick' = 0]_vars

\* C2 witness: the second tick in a row, made by the timer.
C2_Witness ==
  /\ last.op = "timer"
  /\ currentTick = 2
  /\ worldTick = 2

\* The world before a tick, and after a tick in which the listed agents'
\* steps do `results`.
WorldNow == [grid |-> grid, agents |-> worldAgents]
WorldAfter(results) == processAgents(WorldNow, config, agents, results, 1)
TickInputs == [1 .. Len(agents) -> StepResults]

\* the agent at index k of the list, where it stands, whether its step
\* returns a well-formed move, and the cell that move leads to
PositionOf(k) == worldAgents[agents[k]].position
Moves(results, k) ==
  /\ ~results[k].threw
  /\ results[k].action.type = "move"
  /\ results[k].action.direction \in Direction
TargetOf(results, k) ==
  calculateNewPosition(PositionOf(k), results[k].action.direction)

\* a cell a move in direction d can enter: in the grid, no wall, nobody on it
Enterable(cell, d) ==
  /\ cell \in DOMAIN grid
  /\ grid[cell].type # "wall"
  /\ grid[cell].occupant = NoAgent
  /\ (config.allowDiagonalMovement \/ ~isDiagonalMove(d))

\* C3, first case: A moves into the cell of the later-registered B, whose
\* step does not move it.
C3_BlockedByLater(results, i, j) ==
  /\ i < j
  /\ Moves(results, i)
  /\ ~Moves(results, j)
  /\ TargetOf(results, i) = PositionOf(j)

\* C3, second case: A and the later-registered B move toward the same
\* empty cell, which no agent registered before A moves to.
C3_SameTarget(results, i, j) ==
  /\ i < j
  /\ Moves(results, i)
  /\ Moves(results, j)
  /\ TargetOf(results, i) = TargetOf(results, j)
  /\ Enterable(TargetOf(results, i), results[i].action.direction)
  /\ \A k \in 1 .. i - 1 :
       ~(Moves(results, k) /\ TargetOf(results, k) = TargetOf(results, i))

\* C3: within a tick the agents are resolved in registration order against
\* the occupancy the earlier agents of the tick have left: under 'block',
\* an agent moving into the cell of a later-registered agent that stays
\* does not move; of two agents moving toward the same empty cell the
\* earlier-registered one ends on it and the later one stays where it was.
C3_RegistrationOrder ==
  (isInitialized /\ config.collisionBehavior = "block") =>
    \A results \in TickInputs :
      \A i, j \in 1 .. Len(agents) :
        /\ C3_BlockedByLater(results, i, j) =>
             WorldAfter(results).agents[agents[i]].position = PositionOf(i)
        /\ C3_SameTarget(results, i, j) =>
             /\ WorldAfter(results).agents[agents[i]].position
                  = TargetOf(results, i)
             /\ WorldAfter(results).agents[agents[j]].position
                  = PositionOf(j)

\* C3 witness: a state in which a tick can run and both cases arise: two
\* agents, each next to the same empty cell and diagonally next to each
\* other.
C3_Witness ==
  /\ isInitialized
  /\ config.collisionBehavior = "block"
  /\ currentTick < MaxTick
  /\ Len(agents) = 2
  /\ \E results \in TickInputs : C3_BlockedByLater(results, 1, 2)
  /\ \E results \in TickInputs : C3_SameTarget(results, 1, 2)

\* C4, the cases in which addAgent must refuse
C4_MustRefuse(position) ==
  \/ ~isValidPosition(position, config)
  \/ Len(agents) >= config.maxAgents
  \/ /\ isValidPosition(position, config)
     /\ \/ grid[position].type = "wall"
        \/ grid[position].occupant # NoAgent /\ config.maxAgentsPerCell <= 1

\* C4: on an initialized engine (before initialize the call throws, C13),
\* addAgent returns false and leaves the agent list, the agent mapping and
\* every cell as they were when the position is outside the grid, the
\* target cell is a wall, the target cell is occupied while
\* maxAgentsPerCell <= 1, or the agent count is already >= maxAgents; the
\* number of registered agents never exceeds maxAgents.
C4_AddAgentRefuses ==
  /\ [](Len(agents) <= config.maxAgents)
  /\ [][last'.op = "addAgent" =>
          \A agent \in AgentObjects, position \in PlacePositions :
            (isInitialized /\ C4_MustRefuse(position)
               /\ AddAgent(agent, position)) =>
              /\ last'.ret = "false"
              /\ UNCHANGED <<agents, worldAgents, grid>>]_vars

\* C4 witness: addAgent has refused a valid agent on a free cell because
\* the limit was reached.
C4_Witness ==
  /\ last.op = "addAgent"
  /\ last.ret = "false"
  /\ last.log = {"Maximum agent limit reached"}
  /\ Len(agents) = config.maxAgents

\* C5, the cases in which a move in direction d is rejected
C5_Rejected(id, d) ==
  LET target == calculateNewPosition(worldAgents[id].position, d)
  IN  \/ ~isValidPosition(target, config)
      \/ ~config.allowDiagonalMovement /\ isDiagonalMove(d)
      \/ /\ isValidPosition(target, config)
         /\ \/ grid[target].type = "wall"
            \/ /\ grid[target].occupant # NoAgent
               /\ config.collisionBehavior = "block"

\* C5: a move action that is rejected (target outside the grid, target a
\* wall, target occupied under 'block', or a diagonal direction while
\* allowDiagonalMovement is false) leaves the agent's position and energy
\* and every cell's occupant as they were.
C5_RejectedMoveChangesNothing ==
  \A id \in DOMAIN worldAgents, d \in Direction :
    C5_Rejected(id, d) =>
      LET after == executeAgentAction(WorldNow, config, id,
                                      Action("move", d, ""))
      IN  /\ after.agents[id].position = worldAgents[id].position
          /\ after.agents[id].energy = worldAgents[id].energy
          /\ \A p \in DOMAIN grid :
               after.grid[p].occupant = grid[p].occupant

\* C5 witness: after a tick an agent that has not moved stands in a corner
\* with a wall on one side and an agent on another: its moves off the grid,
\* into the wall and into the agent are rejected.
C5_Witness ==
  /\ IsTick(last)
  /\ \E id \in DOMAIN worldAgents :
       /\ worldAgents[id].energy = InitialEnergy
       /\ \E d \in Direction :
            ~isValidPosition(
               calculateNewPosition(worldAgents[id].position, d), config)
       /\ \E d \in Direction :
            LET target == calculateNewPosition(worldAgents[id].position, d)
            IN  target \in DOMAIN grid /\ grid[target].type = "wall"
       /\ \E d \in Direction :
            LET target == calculateNewPosition(worldAgents[id].position, d)
            IN  target \in DOMAIN grid /\ grid[target].occupant # NoAgent

\* C6, a step that throws or returns an action that fails validation
C6_Fails(result) ==
  result.threw \/ Len(validateAgentAction(result.action)) > 0

C6_Wait == [threw |-> FALSE, action |-> Action("wait", "", "")]

\* C6: if an agent's step throws or returns an action that fails
\* validation, the agent's state is not changed, the tick leaves the world
\* as it would had the agent returned wait, the tick counter still goes up
\* by 1 and the call returns normally. The first conjunct is about every
\* state in which a tick can run.
C6_FailingStepIsWait ==
  /\ []((isInitialized /\ currentTick < MaxTick) =>
          \A results \in TickInputs : \A i \in 1 .. Len(agents) :
            C6_Fails(results[i]) =>
              LET after == WorldAfter(results)
              IN  /\ after = WorldAfter([results EXCEPT ![i] = C6_Wait])
                  /\ after.agents[agents[i]] = worldAgents[agents[i]])
  /\ []((last.op \in {"step", "timer"} /\ last.log # {}) => last.ret = "ok")
  /\ [][(last'.op \in {"step", "timer"} /\ last'.log # {}) =>
          /\ currentTick' = currentTick + 1
          /\ worldTick' = worldTick + 1]_vars

\* C6 witness: the first tick, in which one agent's step threw and the
\* other agent moved.
C6_Witness ==
  /\ last.op = "step"
  /\ last.ret = "ok"
  /\ last.log = {"Error executing agent"}
  /\ currentTick = 1
  /\ \E id \in DOMAIN worldAgents : worldAgents[id].energy < InitialEnergy

\* C7: step() on an initialized engine executes exactly one tick (it
\* returns normally and both counters go up by 1) in whichever run state
\* the engine is, and leaves isRunning and isPaused unchanged.
C7_StepIsOneTick ==
  [][(last'.op = "step" /\ isInitialized) =>
       /\ last'.ret = "ok"
       /\ currentTick' = currentTick + 1
       /\ worldTick' = worldTick + 1
       /\ agents' = agents
       /\ isRunning' = isRunning
       /\ isPaused' = isPaused]_vars

\* C7 witness: step() was called on a running engine and has moved an
\* agent; the engine is still running.
C7_Witness ==
  /\ last.op = "step"
  /\ last.from = "running"
  /\ isRunning
  /\ ~isPaused
  /\ \E id \in DOMAIN worldAgents : worldAgents[id].energy < InitialEnergy

\* C8: play() on an initialized engine that is stopped or paused yields
\* isRunning = true and isPaused = false; play() while running changes
\* nothing; startTime is set by the first play() of a run and no later
\* play() changes it: once set it changes only by reset or initialize.
C8_PlayRuns ==
  /\ [][(last'.op = "play" /\ isInitialized) =>
         /\ last'.ret = "ok"
         /\ isRunning'
         /\ ~isPaused'
         /\ isRunning => UNCHANGED engineVars
         /\ startTime = NoTime => startTime' # NoTime
         /\ startTime # NoTime => startTime' = startTime]_vars
  /\ [][(startTime # NoTime /\ startTime' # startTime) =>
         last'.op \in {"reset", "initialize"}]_vars

\* C8 witness: play() has resumed a paused engine whose run had started.
C8_Witness ==
  /\ last.op = "play"
  /\ last.from = "paused"
  /\ isRunning
  /\ ~isPaused
  /\ startTime # NoTime

\* C9: pause() is idempotent (a pause() that follows a pause() changes
\* nothing), and pause() on an engine that is not running (stopped, paused
\* or never initialized) changes nothing: a stopped engine stays stopped.
C9_PauseIdempotent ==
  /\ [][(last.op = "pause" /\ last'.op = "pause") =>
         UNCHANGED engineVars]_vars
  /\ [][(last'.op = "pause" /\ ~isRunning) =>
         /\ UNCHANGED engineVars
         /\ Status = "stopped" => Status' = "stopped"]_vars
  /\ [][last'.op = "pause" => ~isRunning']_vars

\* C9 witness: pause() was called on an engine that was already paused.
C9_Witness ==
  /\ last.op = "pause"
  /\ last.from = "paused"
  /\ isPaused
  /\ ~isRunning

\* C10: a play() or a pause() leaves currentTick, worldState.tick, the
\* agent list, the agent mapping and every cell unchanged, hence so does
\* any sequence of them with no tick in between.
C10_PlayPauseKeepWorld ==
  [][last'.op \in {"play", "pause"} =>
       UNCHANGED <<currentTick, worldTick, agents, worldAgents, grid>>]_vars

\* C10 witness: a running engine with ticks done, two agents and a wall
\* has been paused.
C10_Witness ==
  /\ last.op = "pause"
  /\ last.from = "running"
  /\ currentTick > 0
  /\ Len(agents) = 2
  /\ \E p \in DOMAIN grid : grid[p].type = "wall"

\* a grid of the dimensions of a config with every cell empty and unoccupied
C11_FreshGrid(g, c) ==
  /\ DOMAIN g = Cells(c)
  /\ \A p \in DOMAIN g : g[p].type = "empty" /\ g[p].occupant = NoAgent

\* C11: after reset() on an initialized engine, from any run state:
\* isRunning and isPaused are false, both tick counters are 0, the agent
\* list and the agent mapping are empty, every cell is empty and unoccupied
\* with the dimensions of the stored config, startTime and endTime are
\* undefined, the config is the one stored before the call, and no tick
\* timer remains installed.
C11_ResetState ==
  [][(last'.op = "reset" /\ isInitialized) =>
       /\ ~isRunning'
       /\ ~isPaused'
       /\ currentTick' = 0
       /\ worldTick' = 0
       /\ Len(agents') = 0
       /\ DOMAIN worldAgents' = {}
       /\ C11_FreshGrid(grid', config)
       /\ startTime' = NoTime
       /\ endTime' = NoTime
       /\ config' = config
       /\ isInitialized'
       /\ ~intervalId'
       /\ activeTimers' = 0]_vars

\* C11 witness: reset() was called on a running engine.
C11_Witness ==
  /\ last.op = "reset"
  /\ last.from = "running"
  /\ isInitialized
  /\ config \in ValidConfigs
  /\ Len(agents) = 0
  /\ activeTimers = 0

\* C12, the configurations initialize must accept
C12_Accepted(c) ==
  /\ 0 < c.width /\ c.width <= 1000
  /\ 0 < c.height /\ c.height <= 1000
  /\ 0 < c.tickRate /\ c.tickRate <= 1000
  /\ 0 < c.maxAgents /\ c.maxAgents <= c.width * c.height
  /\ c.hasWorldRules

\* C12, the message of every rule the configuration violates
C12_Violations(c) ==
  (IF c.width <= 0 \/ c.height <= 0
     THEN {"Valid grid size is required"} ELSE {})
  \cup (IF c.width > 1000 \/ c.height > 1000
          THEN {"Grid size cannot exceed 1000x1000"} ELSE {})
  \cup (IF c.tickRate <= 0 THEN {"Tick rate must be positive"} ELSE {})
  \cup (IF c.tickRate > 1000
          THEN {"Tick rate cannot exceed 1000 ticks per second"} ELSE {})
  \cup (IF c.maxAgents <= 0 THEN {"Max agents must be positive"} ELSE {})
  \cup (IF c.maxAgents > c.width * c.height
          THEN {"Max agents cannot exceed grid capacity"} ELSE {})
  \cup (IF ~c.hasWorldRules THEN {"World rules are required"} ELSE {})

\* C12: initialize(config) succeeds exactly when 0 < width <= 1000,
\* 0 < height <= 1000, 0 < tickRate <= 1000, 0 < maxAgents <= width*height
\* and worldRules is present; when it fails the error lists every violated
\* rule; when it succeeds the engine is stopped with tick 0, no agents and
\* an all-empty, unoccupied grid of height rows by width columns, and the
\* timer of a previous run has been cancelled.
C12_InitializeValidates ==
  [][last'.op = "initialize" =>
       \A c \in ConfigInputs :
         Initialize(c) =>
           IF C12_Accepted(c)
             THEN /\ last'.ret = "ok"
                  /\ isInitialized'
                  /\ ~isRunning'
                  /\ ~isPaused'
                  /\ currentTick' = 0
                  /\ worldTick' = 0
                  /\ Len(agents') = 0
                  /\ DOMAIN worldAgents' = {}
                  /\ C11_FreshGrid(grid', c)
                  /\ config' = c
                  /\ ~intervalId'
                  /\ activeTimers' = 0
             ELSE /\ last'.ret = "throw"
                  /\ last'.log = C12_Violations(c)]_vars

\* C12 witness: initialize has failed on a running engine with an error
\* that lists six violated rules.
C12_Witness ==
  /\ last.op = "initialize"
  /\ last.ret = "throw"
  /\ last.from = "running"
  /\ Cardinality(last.log) = 6

\* C13: a call that fails fatally (initialize with an invalid config in
\* any engine state, or play, step or addAgent before any successful
\* initialize) throws to the caller and leaves the engine state exactly as
\* before the call: run flags, tick, agents, world, stored config and any
\* running tick timer are unchanged.
C13_FatalFailureKeepsState ==
  /\ [][last'.ret = "throw" => UNCHANGED engineVars]_vars
  /\ [][last'.op = "initialize" =>
          \A c \in InvalidConfigs :
            Initialize(c) => last'.ret = "throw" /\ UNCHANGED engineVars]_vars
  /\ [][(last'.op \in {"play", "step", "addAgent"} /\ ~isInitialized) =>
          last'.ret = "throw" /\ UNCHANGED engineVars]_vars

\* C13 witness: initialize has thrown on a running engine with an agent
\* and a tick done; the engine still runs and its timer is installed.
C13_Witness ==
  /\ last.op = "initialize"
  /\ last.ret = "throw"
  /\ last.from = "running"
  /\ isRunning
  /\ activeTimers = 1
  /\ currentTick > 0
  /\ Len(agents) > 0

\* the ids of the agents in the list
Listed(agentList) == {agentList[k] : k \in 1 .. Len(agentList)}

\* C14: removeAgent(id) returns false and changes nothing when no
\* registered agent has that id; otherwise it returns true, clears the
\* occupant of the agent's cell, removes the agent from the WorldState
\* mapping and from the engine's agent list and invokes the agent's cleanup
\* hook exactly once if it has one; the agent's step is not invoked in any
\* later tick: a tick calls the steps of the listed agents, and an id
\* enters the list only by addAgent.
C14_RemoveAgent ==
  /\ [][last'.op = "removeAgent" =>
          \A agentId \in AgentIds :
            RemoveAgent(agentId) =>
              IF agentId \notin Listed(agents)
                THEN /\ last'.ret = "false"
                     /\ last'.cleanups = 0
                     /\ UNCHANGED engineVars
                ELSE /\ last'.ret = "true"
                     /\ grid'[worldAgents[agentId].position].occupant = NoAgent
                     /\ agentId \notin DOMAIN worldAgents'
                     /\ agentId \notin Listed(agents')
                     /\ Len(agents') = Len(agents) - 1
                     /\ last'.cleanups = IF hasCleanup(agentId) THEN 1 ELSE 0]_vars
  /\ [][\A agentId \in AgentIds :
          (agentId \notin Listed(agents) /\ agentId \in Listed(agents')) =>
            last'.op = "addAgent"]_vars
  /\ [][last'.op # "removeAgent" => last'.cleanups = 0]_vars

\* C14 witness: after a tick, removeAgent has removed an agent that has a
\* cleanup hook, and called the hook; the other agent is still registered.
C14_Witness ==
  /\ last.op = "removeAgent"
  /\ last.ret = "true"
  /\ last.cleanups = 1
  /\ currentTick > 0
  /\ Listed(agents) = {"b"}
  /\ DOMAIN worldAgents = {"b"}

\* C15: each successful move lowers the moving agent's energy by exactly
\* energyConsumptionPerMove, floored at 0, and changes no other agent's
\* energy; a newly added agent has health 100 and energy 100; energy and
\* health of every agent are >= 0 in every reachable state.
C15_Energy ==
  /\ \A id \in DOMAIN worldAgents :
       worldAgents[id].energy >= 0 /\ worldAgents[id].health >= 0
  /\ \A id \in DOMAIN worldAgents, d \in Direction :
       ~C5_Rejected(id, d) =>
         LET after == executeAgentAction(WorldNow, config, id,
                                         Action("move", d, ""))
             cost  == config.energyConsumptionPerMove
         IN  /\ after.agents[id].position
                  = calculateNewPosition(worldAgents[id].position, d)
             /\ after.agents[id].energy =
                  IF worldAgents[id].energy >= cost
                    THEN worldAgents[id].energy - cost ELSE 0
             /\ \A other \in DOMAIN worldAgents \ {id} :
                  after.agents[other].energy = worldAgents[other].energy
  /\ (last.op = "addAgent" /\ last.ret = "true") =>
       /\ worldAgents[agents[Len(agents)]].health = 100
       /\ worldAgents[agents[Len(agents)]].energy = 100

\* C15 witness: after the second tick an agent whose moves cost more than
\* the energy it has left stands beside a cell it can move to, next to an
\* agent that has all its energy.
C15_Witness ==
  /\ IsTick(last)
  /\ currentTick = 2
  /\ \E id \in DOMAIN worldAgents :
       /\ worldAgents[id].energy < config.energyConsumptionPerMove
       /\ \E d \in Direction : ~C5_Rejected(id, d)
       /\ \E other \in DOMAIN worldAgents \ {id} :
            worldAgents[other].energy = InitialEnergy

\* C16: in every state reachable by any sequence of addAgent (with
\* arbitrary agent ids and positions), removeAgent, step and reset, the
\* number of agents in the engine's agent list equals the size of the
\* WorldState agent mapping, and the two hold exactly the same ids.
C16_ListMatchesMapping ==
  /\ Len(agents) = Cardinality(DOMAIN worldAgents)
  /\ Listed(agents) = DOMAIN worldAgents

\* C17: the WorldState consistency invariant (every agent's position cell
\* has that agent as occupant, and every cell occupant is a key of the
\* agent mapping) holds in every reachable state for every configuration
\* that initialize accepts, including collisionBehavior 'push' or 'overlap'
\* and maxAgentsPerCell > 1.
C17_ConsistentUnderEveryRule ==
  /\ \A id \in DOMAIN worldAgents :
       /\ worldAgents[id].position \in DOMAIN grid
       /\ grid[worldAgents[id].position].occupant = id
  /\ \A p \in DOMAIN grid :
       grid[p].occupant # NoAgent => grid[p].occupant \in DOMAIN worldAgents

\* A step of the WASM agent was the last call, and the module has not
\* changed since.
WasmStepped == wasmLast.op = "step"

WasmWait == Action("wait", "", "")

\* C18: if the module's step export throws or traps, WASMAgent.step
\* returns the wait action and nothing propagates to the caller, on the
\* sandboxed path and on the direct path.
C18_TrapBecomesWait ==
  (WasmStepped /\ wasmInstance /\ wasmExports = "step"
     /\ wasmLast.moduleStep.throws)
    => /\ wasmLast.ret = "return"
       /\ wasmLast.action = WasmWait

C18_Witness ==
  /\ WasmStepped /\ wasmInstance /\ wasmExports = "step"
  /\ wasmLast.moduleStep.throws
  /\ wasmLast.sandboxed /\ wasmLast.calls = 1
  /\ wasmLast.ret = "return" /\ wasmLast.action = WasmWait

\* A result the decoder accepts as it stands.
WellFormed(result) ==
  /\ result.tag \in 0 .. 3
  /\ result.tag = 1 => result.code + 1 \in DOMAIN DirectionCodes
  /\ result.tag = 2 => result.text # ""
  /\ result.tag = 3 => result.text \in JsonTexts

\* C19: when a sandboxed agent's module step call succeeds and returns a
\* well-formed result, WASMAgent.step returns the action decoded from that
\* result (tag 1, direction code 2: a move east).
C19_DecodedActionReturned ==
  (WasmStepped /\ wasmLast.sandboxed /\ wasmInstance
     /\ wasmExports = "step" /\ ~wasmLast.moduleStep.throws
     /\ WellFormed(wasmLast.moduleStep.result))
    => /\ wasmLast.ret = "return"
       /\ wasmLast.action = deserializeAgentAction(wasmLast.moduleStep.result)

\* C20 as stated: when the instance or usable exports are missing, the
\* sandboxed agent's step yields wait, without calling the export and
\* without raising an error.
C20_MissingModuleYieldsWait ==
  (WasmStepped /\ wasmLast.sandboxed
     /\ (~wasmInstance \/ wasmExports # "step"))
    => /\ wasmLast.calls = 0
       /\ wasmLast.ret = "return"
       /\ wasmLast.action = WasmWait

\* C20, amended: when the instance or usable exports are missing, the
\* sandboxed agent's step never calls the module's step export; it throws
\* 'WASM agent not initialized' when the instance or the exports object is
\* missing, and yields wait when the exports lack a callable step.
C20_MissingModuleNeverCalled ==
  (WasmStepped /\ wasmLast.sandboxed
     /\ (~wasmInstance \/ wasmExports # "step"))
    => /\ wasmLast.calls = 0
       /\ IF ~wasmInstance \/ wasmExports = "none"
            THEN wasmLast.ret = "throw"
            ELSE wasmLast.ret = "return" /\ wasmLast.action = WasmWait

C20_Witness ==
  /\ WasmStepped /\ wasmLast.sandboxed
  /\ ~wasmInstance /\ wasmExports = "step"
  /\ wasmLast.calls = 0 /\ wasmLast.ret = "throw"

\* C21: step on a WASMAgent whose module has no instance or no exports
\* (never instantiated, or after cleanup) throws 'WASM agent not
\* initialized' and does not call the module's step export.
C21_UninitializedStepThrows ==
  (WasmStepped /\ (~wasmInstance \/ wasmExports = "none"))
    => /\ wasmLast.ret = "throw"
       /\ wasmLast.calls = 0

\* A step on a module that has an instance and no exports.
C21_Witness ==
  /\ WasmStepped /\ wasmInstance /\ wasmExports = "none"
  /\ wasmLast.ret = "throw" /\ wasmLast.calls = 0

\* C22: when the module's step call has not produced a result after
\* timeoutMs, the execution boundary yields the wait action: the step of a
\* sandboxed agent whose module does not return still returns (wait), so
\* the tick that called it completes.
C22_TimeoutYieldsWait ==
  (WasmStepped /\ wasmLast.sandboxed /\ wasmInstance
     /\ wasmExports = "step" /\ wasmLast.moduleStep.hangs)
    => /\ wasmLast.ret = "return"
       /\ wasmLast.action = WasmWait

\* C23: cleanup() calls the module's cleanup export once if it exists,
\* returns normally whatever the export does, and leaves the module with
\* no instance and no exports (and the agent with no sandbox); a step
\* right after cleanup does not call the step export; a second cleanup
\* calls nothing, changes nothing and returns normally.
C23_Cleanup ==
  [][/\ wasmLast'.op = "cleanup" =>
          /\ wasmLast'.ret = "return"
          /\ ~wasmInstance' /\ wasmExports' = "none" /\ ~executionSandbox'
          /\ \A cleanupExport \in {"absent", "returns", "throws"} :
                WasmCleanup(cleanupExport) =>
                  wasmLast'.cleanupCalls =
                    IF wasmExports # "none" /\ cleanupExport # "absent"
                      THEN 1 ELSE 0
     /\ (wasmLast.op = "cleanup" /\ wasmLast'.op = "step") =>
          wasmLast'.calls = 0
     /\ (wasmLast.op = "cleanup" /\ wasmLast'.op = "cleanup") =>
          /\ wasmLast'.cleanupCalls = 0
          /\ wasmLast' = [wasmLast EXCEPT !.cleanupCalls = 0]
          /\ UNCHANGED <<wasmInstance, wasmExports, executionSandbox>>
    ]_vars

\* A cleanup that called the module's cleanup export.
C23_Witness ==
  /\ wasmLast.op = "cleanup" /\ wasmLast.cleanupCalls = 1
  /\ ~wasmInstance /\ wasmExports = "none" /\ ~executionSandbox

\* C29, what the claim has validation reject
C29_Rejected(action) ==
  \/ action.type \notin {"move", "wait", "communicate", "custom"}
  \/ action.type = "move" /\ action.direction = ""
  \/ action.type = "communicate" /\ action.message = ""

\* C29: action validation returns a non-empty error list exactly for an
\* action whose type is not one of move, wait, communicate, custom, for a
\* move without a direction and for a communicate without a message; the
\* tick that receives a rejected action returns normally, logs the warning
\* and applies nothing.
C29_ValidationRejects ==
  [][(IsTick(last') /\ Len(agents) = 1) =>
       \A results \in [1 .. 1 -> ActionResults] :
         Step(results) =>
           /\ (Len(validateAgentAction(results[1].action)) > 0)
                 <=> C29_Rejected(results[1].action)
           /\ ("Invalid action from agent" \in last'.log)
                 <=> C29_Rejected(results[1].action)
           /\ C29_Rejected(results[1].action) =>
                 grid' = grid /\ worldAgents' = worldAgents]_vars

\* C30: during a tick every step call is passed the grid and the agent
\* positions as they were when the tick began, whatever the agents listed
\* before returned in this tick.
C30_StepSeesTickStart ==
  (isInitialized /\ currentTick < MaxTick) =>
    \A results \in TickInputs : \A i \in 1 .. Len(agents) :
      stepArgument(WorldNow, config, agents, results, i) = WorldNow

\* The cell next to `position` in `direction` is inside the grid, is not
\* a wall and has no occupant.
Walkable(position, direction) ==
  LET cell == calculateNewPosition(position, direction)
  IN  /\ isValidPosition(cell, config)
      /\ grid[cell].type # "wall"
      /\ grid[cell].occupant = NoAgent

Cardinal == {"north", "south", "east", "west"}

Move(direction) == Action("move", direction, "")

Wait == Action("wait", "", "")

\* what C24 allows the random walker to return for an agent at `position`
C24_Allowed(position) ==
  IF \E d \in Cardinal : Walkable(position, d)
    THEN { Move(d) : d \in { e \in Cardinal : Walkable(position, e) } }
    ELSE { Wait }

\* C24: RandomWalker.step returns a move only in a cardinal direction
\* whose neighbouring cell is inside the grid, not a wall and unoccupied;
\* every such direction is a possible result; it returns wait exactly when
\* there is none; on a world whose grid is empty it returns wait.  The
\* first conjunct is about every world, taken before any call (a call
\* leaves the world as it is); the second about the call made.
C24_RandomWalker ==
  /\ agentLast.class = "none" => \A id \in DOMAIN worldAgents :
       /\ RandomWalkerStep(worldStateArgument(FALSE),
                           worldAgents[id].position)
            = C24_Allowed(worldAgents[id].position)
       /\ RandomWalkerStep(worldStateArgument(TRUE),
                           worldAgents[id].position) = { Wait }
  /\ agentLast.class = "RandomWalkerAgent" =>
       IF agentLast.malformed
         THEN agentLast.action = Wait
         ELSE agentLast.action
                \in C24_Allowed(worldAgents[agentLast.id].position)

\* The walker in the middle, a wall north of it, agent b west of it: it
\* has moved east, and south was open too.
C24_Witness ==
  /\ agentLast.class = "RandomWalkerAgent"
  /\ agentLast.id = "a" /\ ~agentLast.malformed
  /\ worldAgents["a"].position = <<1, 1>>
  /\ grid[<<1, 0>>].type = "wall"
  /\ grid[<<0, 1>>].occupant = "b"
  /\ agentLast.action = Move("east")
  /\ Walkable(<<1, 1>>, "south")

Goals == { p \in DOMAIN grid : grid[p].type = "goal" }

Manhattan(p, q) == Abs(p[1] - q[1]) + Abs(p[2] - q[2])

\* the goal of minimum Manhattan distance, the first in row-major order
\* among the nearest
C25_Target(position) ==
  CHOOSE g \in Goals :
    \A h \in Goals \ {g} :
      \/ Manhattan(g, position) < Manhattan(h, position)
      \/ /\ Manhattan(g, position) = Manhattan(h, position)
         /\ (g[2] < h[2] \/ (g[2] = h[2] /\ g[1] < h[1]))

\* the direction C25 states for an agent at `position`; "" when it is on
\* the target
C25_Preferred(position) ==
  LET dx == C25_Target(position)[1] - position[1]
      dy == C25_Target(position)[2] - position[2]
  IN  IF Abs(dx) > Abs(dy) THEN (IF dx > 0 THEN "east" ELSE "west")
      ELSE IF dy > 0 THEN "south"
      ELSE IF dy < 0 THEN "north"
      ELSE ""

\* C25: with a goal cell in the world, GoalSeeker targets the nearest goal
\* (the first in row-major order among equally near ones) and, when the
\* cell in the preferred direction is walkable, returns the move in that
\* direction: along x when |dx| > |dy|, otherwise along y; with no goal
\* cell it returns what RandomWalker returns.
C25_GoalSeeker ==
  /\ agentLast.class = "none" => \A id \in DOMAIN worldAgents :
       LET position == worldAgents[id].position
       IN  IF Goals = {}
             THEN \A malformed \in BOOLEAN :
                    GoalSeekerStep(worldStateArgument(malformed), position)
                      = RandomWalkerStep(worldStateArgument(malformed),
                                         position)
             ELSE /\ findNearestGoal(worldStateArgument(FALSE), position)
                       = C25_Target(position)
                  /\ (C25_Preferred(position) # ""
                        /\ Walkable(position, C25_Preferred(position)))
                      => GoalSeekerStep(worldStateArgument(FALSE), position)
                           = { Move(C25_Preferred(position)) }
  /\ (agentLast.class = "GoalSeekerAgent" /\ ~agentLast.malformed
        /\ Goals # {}) =>
       LET position == worldAgents[agentLast.id].position
       IN  (C25_Preferred(position) # ""
             /\ Walkable(position, C25_Preferred(position)))
           => agentLast.action = Move(C25_Preferred(position))

\* Two goals at distance 2 of the seeker in the corner: the one in row 0
\* is the target and the seeker has moved east.
C25_Witness ==
  /\ agentLast.class = "GoalSeekerAgent"
  /\ agentLast.id = "a" /\ ~agentLast.malformed
  /\ worldAgents["a"].position = <<0, 0>>
  /\ Goals = { <<2, 0>>, <<1, 1>> }
  /\ agentLast.action = Move("east")

\* C26: when the cell in GoalSeeker's preferred direction is not walkable,
\* it returns a move in a walkable cardinal direction whose cell is as
\* near to the goal as that of any walkable cardinal direction, and wait
\* when no cardinal neighbour is walkable.
C26_Alternative ==
  /\ agentLast.class = "none" => \A id \in DOMAIN worldAgents :
       LET position == worldAgents[id].position
       IN  (Goals # {} /\ C25_Preferred(position) # ""
             /\ ~Walkable(position, C25_Preferred(position)))
           => \A action \in GoalSeekerStep(worldStateArgument(FALSE),
                                            position) :
                IF \E d \in Cardinal : Walkable(position, d)
                  THEN /\ action.type = "move"
                       /\ action.direction \in Cardinal
                       /\ Walkable(position, action.direction)
                       /\ \A e \in Cardinal :
                            Walkable(position, e) =>
                              Manhattan(calculateNewPosition(
                                          position, action.direction),
                                        C25_Target(position))
                              <= Manhattan(calculateNewPosition(position, e),
                                           C25_Target(position))
                  ELSE action = Wait
  /\ (agentLast.class = "GoalSeekerAgent" /\ ~agentLast.malformed
        /\ Goals # {}) =>
       LET position == worldAgents[agentLast.id].position
       IN  (C25_Preferred(position) # ""
             /\ ~Walkable(position, C25_Preferred(position))
             /\ ~\E d \in Cardinal : Walkable(position, d))
           => agentLast.action = Wait

\* The seeker in the middle, the goal south-east of it, a wall south of
\* it: of north, east and west it has taken east.
C26_Witness ==
  /\ agentLast.class = "GoalSeekerAgent"
  /\ agentLast.id = "a" /\ ~agentLast.malformed
  /\ worldAgents["a"].position = <<1, 1>>
  /\ Goals = { <<2, 2>> }
  /\ grid[<<1, 2>>].type = "wall"
  /\ Walkable(<<1, 1>>, "north") /\ Walkable(<<1, 1>>, "west")
  /\ agentLast.action = Move("east")

\* the pattern direction of the k-th call, k = 1, 2, ...
PatternAt(k) == patrolPattern[((k - 1) % Len(patrolPattern)) + 1]

\* C27: a PatrolAgent for which every pattern direction is walkable at
\* every call (the world does not change between the calls) returns on its
\* k-th step call a move in pattern[(k-1) mod length].
C27_PatrolFollowsPattern ==
  (/\ agentLast.class = "PatrolAgent"
   /\ \A k \in 1 .. Len(patrolPattern) :
        Walkable(worldAgents[agentLast.id].position, patrolPattern[k]))
    => agentLast.action = Move(PatternAt(patrolCalls))

\* C28: when the PatrolAgent's current pattern direction is blocked, the
\* step returns a move in the next pattern direction if that one is
\* walkable and wait otherwise, whatever the later pattern directions are.
C28_PatrolTriesOneMore ==
  agentLast.class = "PatrolAgent" =>
    LET position == worldAgents[agentLast.id].position
        current  == patrolPattern[agentLast.index + 1]
        next     == patrolPattern[
                      ((agentLast.index + 1) % Len(patrolPattern)) + 1]
    IN  ~Walkable(position, current) =>
          agentLast.action =
            IF Walkable(position, next) THEN Move(next) ELSE Wait

\* C31: in every reachable state at most one tick timer is installed, a
\* timer is installed exactly when isRunning is true, and isRunning and
\* isPaused are never both true; each timer firing executes exactly one
\* tick; after a pause(), a reset() or an initialize() that returned the
\* engine is not running, an engine that is not running is ticked by no
\* timer, and only play() makes it run: no timer-driven tick occurs between
\* a pause(), reset() or initialize() and the next play().
C31_OneTimerWhileRunning ==
  /\ [](/\ activeTimers <= 1
        /\ activeTimers = 1 <=> isRunning
        /\ intervalId <=> isRunning
        /\ ~(isRunning /\ isPaused)
        /\ (\/ last.op \in {"pause", "reset"}
            \/ (last.op = "initialize" /\ last.ret = "ok")) => ~isRunning)
  /\ [][last'.op = "timer" =>
         /\ isRunning
         /\ last'.ret = "ok"
         /\ currentTick' = currentTick + 1
         /\ worldTick' = currentTick + 1
         /\ \E results \in TickInputs : executeSimulationTick(results)]_vars
  /\ [][(~isRunning /\ isRunning') => last'.op = "play"]_vars

\* C31 witness: the one installed timer has fired on a running engine and
\* done the last tick of the run.
C31_Witness ==
  /\ last.op = "timer"
  /\ last.ret = "ok"
  /\ isPaused = FALSE
  /\ isRunning
  /\ activeTimers = 1
  /\ currentTick = MaxTick
  /\ endTime = NoTime
  /\ startTime # NoTime

\* an action that a tick leaves without effect on the world, as C32 lists
\* them: wait, communicate, custom, or an action that fails validation
C32_Quiet(action) ==
  \/ action.type \in {"wait", "communicate", "custom"}
  \/ Len(validateAgentAction(action)) > 0

\* C32: a tick in which every agent returns wait, communicate, custom or an
\* action that fails validation changes no agent's position, energy, health
\* or inventory and no cell's type or occupant; only currentTick and
\* worldState.tick change.
C32_QuietTickChangesOnlyTick ==
  /\ [](isInitialized =>
          \A results \in [1 .. Len(agents) -> ActionResults] :
            (\A k \in 1 .. Len(agents) : C32_Quiet(results[k].action)) =>
              processAgents(WorldNow, config, agents, results, 1) = WorldNow)
  /\ [][IsTick(last') =>
         /\ \E results \in [1 .. Len(agents) -> ActionResults] :
              LET world == processAgents(WorldNow, config, agents, results, 1)
              IN  grid' = world.grid /\ worldAgents' = world.agents
         /\ currentTick' = currentTick + 1
         /\ worldTick' = currentTick + 1
         /\ UNCHANGED <<agents, isInitialized, config, runVars>>]_vars

\* C32 witness: a tick was done with two agents registered (each of the
\* four kinds of action is among the inputs of that tick), and a second
\* tick can follow.
C32_Witness ==
  /\ IsTick(last)
  /\ last.op = "step"
  /\ Len(agents) = 2
  /\ currentTick = 1
  /\ \A id \in DOMAIN worldAgents : worldAgents[id].energy = InitialEnergy

\* C33: for every world the engine can hold (grid up to 1000 by 1000, up
\* to maxAgents agents), the bytes written by serializeWorldState
\* (12 + 2*width*height + 4 + 8*agentCount bytes from its start offset) do
\* not overlap the slot written by serializeAgentState in the same
\* invocation, and both regions lie inside the sandbox memory.
C33_ScratchRegionsDisjoint ==
  (memoryLast.op = "executeStep" /\ memoryLast.outcome # "rejected") =>
    /\ memoryLast.worldStatePtr + worldStateBytes(memoryLast.world)
         <= memoryLast.agentStatePtr
    /\ memoryLast.agentStatePtr + AgentStateSlot <= byteLength(memoryPages)
    /\ memoryLast.serialized

\* C34: after every executeStep invocation, whether it returned the
\* module's action, fell back to wait after an error or timed out, the
\* scratch allocator offset is 0; hence every invocation passes the same
\* world-state and agent-state offsets to the module and the allocated
\* scratch space does not grow with the number of ticks.
C34_ScratchRewound ==
  /\ [][(\/ memoryLast'.op = "settle"
         \/ memoryLast'.op = "executeStep"
              /\ memoryLast'.outcome = "wait") => nextOffset' = 0]_vars
  /\ []((memoryLast.op = "executeStep" /\ memoryLast.called) =>
          /\ memoryLast.worldStatePtr = 0
          /\ memoryLast.agentStatePtr = WorldStateSlot)
  /\ [](nextOffset <= WorldStateSlot + AgentStateSlot)

\* the bytes of the buffer from offset ptr on, as far as the claim needs
\* them: none when ptr is outside the buffer, the one zero byte when ptr
\* lies before what the module wrote
C35_From(ptr) ==
  LET size == byteLength(memoryPages)
      first == size - Len(memoryTail)
  IN  IF ptr < 0 \/ ptr >= size THEN << >>
      ELSE IF ptr < first THEN <<0>>
      ELSE SubSeq(memoryTail, ptr - first + 1, Len(memoryTail))

C35_Table ==
  <<"north", "south", "east", "west",
    "northeast", "northwest", "southeast", "southwest">>

C35_Wait == [type |-> "wait", direction |-> "", message |-> << >>,
             customData |-> << >>]

\* the length field of the bytes b and the payload that follows it, << >>
\* with flag FALSE when either does not lie inside the buffer
C35_Payload(b) ==
  IF Len(b) < 5 THEN [inside |-> FALSE, bytes |-> << >>]
  ELSE LET n == b[2] + 256 * b[3] + 65536 * b[4] + 16777216 * b[5]
       IN  IF 5 + n > Len(b) THEN [inside |-> FALSE, bytes |-> << >>]
           ELSE [inside |-> TRUE, bytes |-> SubSeq(b, 6, 5 + n)]

\* the action C35 states for the result at offset ptr
C35_Expected(ptr) ==
  LET b == C35_From(ptr)
  IN  IF b = << >> THEN C35_Wait
      ELSE IF b[1] = 1
        THEN IF Len(b) < 2 THEN C35_Wait
             ELSE [C35_Wait EXCEPT
                     !.type = "move",
                     !.direction = IF b[2] >= 8 THEN "north"
                                   ELSE C35_Table[b[2] + 1]]
      ELSE IF b[1] = 2
        THEN IF ~C35_Payload(b).inside THEN C35_Wait
             ELSE [C35_Wait EXCEPT !.type = "communicate",
                                   !.message = C35_Payload(b).bytes]
      ELSE IF b[1] = 3
        THEN IF ~C35_Payload(b).inside \/ ~jsonParses(C35_Payload(b).bytes)
               THEN C35_Wait
             ELSE [C35_Wait EXCEPT !.type = "custom",
                                   !.customData = C35_Payload(b).bytes]
      ELSE C35_Wait

\* C35: deserializeAgentAction maps tag 0 to wait, tag 1 to a move whose
\* direction is the entry of the table [North, South, East, West,
\* Northeast, Northwest, Southeast, Southwest] indexed by the next byte (any
\* code >= 8 gives North), tag 2 to communicate with the length-prefixed
\* message and tag 3 to custom with the parsed payload; any other tag, an
\* out-of-range read or an unparsable custom payload yields wait, and the
\* function never throws.
C35_Deserialize ==
  memoryLast.op = "deserializeAgentAction" =>
    /\ memoryLast.returns
    /\ memoryLast.action = C35_Expected(memoryLast.ptr)

\* C35 witness: a result with tag 1 and direction code 8 was decoded as a
\* move north.
C35_Witness ==
  /\ memoryLast.op = "deserializeAgentAction"
  /\ Len(C35_From(memoryLast.ptr)) > 1
  /\ C35_From(memoryLast.ptr)[1] = 1
  /\ C35_From(memoryLast.ptr)[2] = 8
  /\ memoryLast.action.type = "move"
  /\ memoryLast.action.direction = "north"

\* the index of the agent with this id in the agent list, 0 if it is not
\* listed
C36_IndexOf(id) == findIndex(agents, id)

\* C36: a WASMAgent registered with addAgent (which calls the agent's
\* asynchronous initialize without waiting for it) and ticked before its
\* instantiation has completed, or after its instantiation has failed,
\* causes no state change and no failure of the tick: the remaining agents
\* are processed, the tick counter advances by 1 and the occupancy
\* invariant still holds.
C36_UninitializedWasmAgentIsInert ==
  /\ [][(/\ IsTick(last')
         /\ currentTick' # currentTick
         /\ C36_IndexOf(WasmAgent.id) > 0
         /\ InitStatus \in {"pending", "failed"}) =>
         /\ last'.ret = "ok"
         /\ currentTick' = currentTick + 1
         /\ worldTick' = currentTick + 1
         /\ agents' = agents
         /\ worldAgents'[WasmAgent.id] = worldAgents[WasmAgent.id]
         /\ LET k == C36_IndexOf(PlainAgent.id)
                world == IF k = 0 THEN WorldNow
                         ELSE processAgent(WorldNow, config, PlainAgent.id,
                                           wasmLast'.results[k])
            IN  grid' = world.grid /\ worldAgents' = world.agents]_vars
  /\ [](C1_OccupancyMatchesMapping)

\* C36 witness: in a tick made while the WASM agent, listed first, was
\* still being instantiated, its step threw and the agent listed after it
\* moved.
C36_Witness ==
  /\ IsTick(last)
  /\ agents = <<"b", "a">>
  /\ wasmLast.op = "step"
  /\ wasmLast.init = "pending"
  /\ wasmLast.ret = "throw"
  /\ "Error executing agent" \in last.log
  /\ worldAgents["a"].energy < InitialEnergy

\* the agents of the list `registered` that are still listed
C37_Survivors(registered) ==
  SelectSeq(registered,
            LAMBDA id : \E k \in 1 .. Len(agents) : agents[k] = id)

\* C37: every agent that is registered when a tick starts and is still
\* registered when the tick ends has had its step invoked exactly once in
\* that tick, in registration order, also when an agent's step calls
\* removeAgent on itself or on another agent during the tick; an agent
\* removed before its turn performs no action in that tick (its step is
\* not invoked).
C37_EverySurvivorSteppedOnce ==
  (last.op = "step" /\ last.ret = "ok") =>
    /\ SelectSeq(last.stepped,
                 LAMBDA id : \E k \in 1 .. Len(agents) : agents[k] = id)
         = C37_Survivors(last.registered)
    /\ \A i, j \in 1 .. Len(last.stepped) :
         last.stepped[i] = last.stepped[j] => i = j

\* the last patrol step found its direction blocked and returned a move in
\* the next pattern direction
C38_Skipped ==
  /\ agentLast.class = "PatrolAgent"
  /\ agentLast.action.type = "move"
  /\ agentLast.action.direction # patrolPattern[agentLast.index + 1]
  /\ agentLast.action.direction =
       patrolPattern[((agentLast.index + 1) % Len(patrolPattern)) + 1]

\* C38: PatrolAgent's pattern index advances by exactly one position (mod
\* pattern length) on every step call, whether the call returned the
\* current direction, the next direction or wait; hence after a step that
\* skipped a blocked direction and returned the next one, the following
\* step attempts that same returned direction again.
C38_IndexAdvancesByOne ==
  /\ [][patrolCalls' = patrolCalls + 1 =>
         /\ agentLast'.index = currentPatrolIndex
         /\ currentPatrolIndex' =
              (currentPatrolIndex + 1) % Len(patrolPattern)
         /\ C38_Skipped => agentLast'.action = agentLast.action]_vars
  /\ [](C38_Skipped =>
          patrolPattern[currentPatrolIndex + 1] = agentLast.action.direction)

\* C38 witness: the second call found its direction blocked and returned
\* the next one, to which the index now points, and a further call follows.
C38_Witness ==
  /\ C38_Skipped
  /\ patrolCalls = 2
  /\ patrolPattern[currentPatrolIndex + 1] = agentLast.action.direction
  /\ currentPatrolIndex = (agentLast.index + 1) % Len(patrolPattern)

\* the cardinal directions whose cell an agent at `position` can enter
C39_Open(position) == {d \in Cardinal : Walkable(position, d)}

\* the actions C39 allows an agent standing on a goal cell
C39_Allowed(position) ==
  IF C39_Open(position) = {} THEN {Wait}
  ELSE {Move(d) : d \in C39_Open(position)}

\* C39: a GoalSeeker that stands on the nearest Goal cell (distance 0) does
\* not wait: whenever at least one cardinal neighbour is walkable it
\* returns a move to one of them, leaving the goal, and it returns wait
\* only when no cardinal neighbour is walkable.
C39_SeekerLeavesGoal ==
  /\ agentLast.class = "none" => \A id \in DOMAIN worldAgents :
       LET position == worldAgents[id].position
       IN  position \in Goals =>
             /\ findNearestGoal(worldStateArgument(FALSE), position)
                  = position
             /\ GoalSeekerStep(worldStateArgument(FALSE), position)
                  \subseteq C39_Allowed(position)
             /\ GoalSeekerStep(worldStateArgument(FALSE), position) # {}
  /\ (/\ agentLast.class = "GoalSeekerAgent"
      /\ ~agentLast.malformed
      /\ worldAgents[agentLast.id].position \in Goals) =>
       agentLast.action \in C39_Allowed(worldAgents[agentLast.id].position)

\* C39 witness: a seeker standing on a goal cell, with an open neighbour,
\* has returned a move.
C39_Witness ==
  /\ agentLast.class = "GoalSeekerAgent"
  /\ ~agentLast.malformed
  /\ worldAgents[agentLast.id].position \in Goals
  /\ C39_Open(worldAgents[agentLast.id].position) # {}
  /\ agentLast.action.type = "move"

\* C40, the calls that replace the engine's state: reset() on an initialized
\* engine and initialize() that returned
C40_Replaces ==
  \/ last'.op = "reset" /\ isInitialized
  \/ last'.op = "initialize" /\ last'.ret = "ok"

\* C40: reset() and a repeated initialize() discard every registered agent
\* (the agent list and the world's agent map are empty afterwards, whatever
\* was registered) without calling any agent's cleanup hook; the engine calls
\* a cleanup hook only in removeAgent, and there only the hook of the agent
\* being removed.
C40_DiscardWithoutCleanup ==
  /\ [][C40_Replaces =>
          /\ last'.cleanups = 0
          /\ last'.discarded = {agents[k] : k \in 1 .. Len(agents)}
          /\ agents' = << >>
          /\ worldAgents' = << >>]_vars
  /\ [][last'.op = "reset" => last'.cleanups = 0]_vars
  /\ [][last'.cleanups > 0 =>
          /\ last'.op = "removeAgent"
          /\ last'.cleanups = 1
          /\ \E agentId \in AgentIds :
               /\ hasCleanup(agentId)
               /\ agentId \in {agents[k] : k \in 1 .. Len(agents)}
               /\ agentId \notin {agents'[k] : k \in 1 .. Len(agents')}]_vars

\* C40 witness: reset() has discarded two registered agents, one of them
\* with a cleanup hook, and no hook was called.
C40_Witness ==
  /\ last.op = "reset"
  /\ last.discarded = AgentIds
  /\ \E agentId \in last.discarded : hasCleanup(agentId)
  /\ last.cleanups = 0
  /\ agents = << >>
  /\ worldAgents = << >>

\* C40 witness of the second case: initialize() was called again on an
\* engine with a registered agent that has a cleanup hook.
C40_WitnessInitialize ==
  /\ last.op = "initialize"
  /\ last.ret = "ok"
  /\ \E agentId \in last.discarded : hasCleanup(agentId)
  /\ last.cleanups = 0
  /\ agents = << >>

====
